---- MODULE Spec2Model ----
(***************************************************************************)
(* A model of skylight-har2openapi: the HAR entry merger                   *)
(* (src/har/merger.ts, src/har/filter.ts) and the OpenAPI path normalizer  *)
(* (converter/path-normalizer.ts), the redaction of headers, query         *)
(* strings, URLs and JSON bodies (src/redaction), the inference and merge  *)
(* of JSON schemas (src/schema/inferrer.ts), the HAR parser                *)
(* (src/har/parser.ts) and the steps of the convert command (cli).         *)
(*                                                                         *)
(* JavaScript strings are sequences of one-character strings, so that      *)
(* case conversion, URL parsing, collation and regular-expression          *)
(* replacement are computed character by character.                        *)
(***************************************************************************)
EXTENDS Integers, Sequences, FiniteSets, TLC

VARIABLES
  harFiles,    \* the argument of mergeHarFiles: a sequence of HAR files
  merged,      \* what mergeHarFiles did: not run, threw, or returned a file
  paths,       \* the argument of normalizeOpenApiPaths: (path, path item) pairs
  normalized,  \* the PathsObject normalizeOpenApiPaths returned
  input,       \* the argument of the redaction or inference function called;
               \* the files and options of the convert command
  output,      \* what that function returned; what the convert command did
  pc           \* "start" before the call, "done" after it returned,
               \* "threw" after it raised; the next step of the convert
               \* command, "returned" or "exited" at its end

vars == <<harFiles, merged, paths, normalized, input, output, pc>>

(***************************************************************************)
(* Bounds of the model.                                                    *)
(***************************************************************************)
MaxFiles == 2
MaxEntries == 3
MaxPaths == 3

(***************************************************************************)
(* Strings.                                                                *)
(***************************************************************************)
LowerLetters ==
  <<"a","b","c","d","e","f","g","h","i","j","k","l","m",
    "n","o","p","q","r","s","t","u","v","w","x","y","z">>

UpperLetters ==
  <<"A","B","C","D","E","F","G","H","I","J","K","L","M",
    "N","O","P","Q","R","S","T","U","V","W","X","Y","Z">>

Digits == <<"0","1","2","3","4","5","6","7","8","9">>

\* Array.prototype.indexOf: the 0-based index of the first x in s, or -1.
indexOf(s, x) ==
  IF \E i \in 1..Len(s) : s[i] = x
    THEN (CHOOSE i \in 1..Len(s) : s[i] = x /\ \A j \in 1..(i-1) : s[j] # x) - 1
    ELSE -1

\* The upper-case letter of each lower-case letter, and the reverse.
UpperOf ==
  [c \in {LowerLetters[i] : i \in 1..Len(LowerLetters)} |->
     UpperLetters[indexOf(LowerLetters, c) + 1]]

LowerOf ==
  [c \in {UpperLetters[i] : i \in 1..Len(UpperLetters)} |->
     LowerLetters[indexOf(UpperLetters, c) + 1]]

toUpperCaseChar(c) == IF c \in DOMAIN UpperOf THEN UpperOf[c] ELSE c

toLowerCaseChar(c) == IF c \in DOMAIN LowerOf THEN LowerOf[c] ELSE c

\* String.prototype.toUpperCase / toLowerCase
toUpperCase(s) == [i \in 1..Len(s) |-> toUpperCaseChar(s[i])]

toLowerCase(s) == [i \in 1..Len(s) |-> toLowerCaseChar(s[i])]

\* The template literal `${n}` of a non-negative integer: its decimal digits.
RECURSIVE NumberToString(_)
NumberToString(n) ==
  IF n < 10 THEN <<Digits[n + 1]>>
  ELSE NumberToString(n \div 10) \o <<Digits[(n % 10) + 1]>>

\* The order of the characters under the root collation that localeCompare
\* uses: punctuation, then symbols, then digits, then letters.
CollationOrder ==
  <<"_", "-", ":", "?", ".", "{", "}", "/", "#", "=">> \o Digits \o LowerLetters

CollationIndex ==
  [c \in {CollationOrder[i] : i \in 1..Len(CollationOrder)} |-> indexOf(CollationOrder, c)]

\* Primary collation weight of a character: case is ignored at this level.
CollationRank(c) == CollationIndex[toLowerCaseChar(c)]

\* The first position at or after i where the primary weights of a and b
\* differ, 0 if there is none in their common length.
RECURSIVE FirstPrimaryDiff(_, _, _)
FirstPrimaryDiff(a, b, i) ==
  IF i > Len(a) \/ i > Len(b) THEN 0
  ELSE IF CollationRank(a[i]) # CollationRank(b[i]) THEN i
  ELSE FirstPrimaryDiff(a, b, i + 1)

\* The first position at or after i where a and b differ, 0 if none
\* (a and b have equal lengths and equal primary weights).
RECURSIVE FirstCaseDiff(_, _, _)
FirstCaseDiff(a, b, i) ==
  IF i > Len(a) THEN 0
  ELSE IF a[i] # b[i] THEN i
  ELSE FirstCaseDiff(a, b, i + 1)

\* String.prototype.localeCompare: negative, zero or positive. Primary
\* weights decide; a proper prefix sorts first; strings that differ in case
\* only are ordered lower case first.
localeCompare(a, b) ==
  LET p == FirstPrimaryDiff(a, b, 1)
  IN  IF p # 0
        THEN (IF CollationRank(a[p]) < CollationRank(b[p]) THEN -1 ELSE 1)
      ELSE IF Len(a) # Len(b)
        THEN (IF Len(a) < Len(b) THEN -1 ELSE 1)
      ELSE LET c == FirstCaseDiff(a, b, 1)
           IN  IF c = 0 THEN 0
               ELSE IF a[c] \in DOMAIN UpperOf THEN -1 ELSE 1

(***************************************************************************)
(* URLs (the WHATWG URL class, for the shapes the model draws: an absolute *)
(* https URL with a plain host, and a string with no scheme, which the     *)
(* constructor rejects).                                                   *)
(***************************************************************************)
Https == <<"h","t","t","p","s",":","/","/">>

\* The position of the first character of s at or after `from` that is in
\* the set stop, or Len(s) + 1.
FindFrom(s, from, stop) ==
  LET hits == {j \in from..Len(s) : s[j] \in stop}
  IN  IF hits = {} THEN Len(s) + 1
      ELSE CHOOSE j \in hits : \A k \in hits : j <= k

HostEnd(s) == FindFrom(s, Len(Https) + 1, {"/", "?", "#"})

\* new URL(s) succeeds (no base URL is given).
UrlParses(s) ==
  /\ Len(s) >= Len(Https)
  /\ toLowerCase(SubSeq(s, 1, Len(Https))) = Https
  /\ HostEnd(s) > Len(Https) + 1

\* url.origin: scheme and host, lower-cased.
UrlOrigin(s) == toLowerCase(SubSeq(s, 1, HostEnd(s) - 1))

\* url.pathname: from the host to the query or fragment; "/" when empty.
UrlPathname(s) ==
  LET p == SubSeq(s, HostEnd(s), FindFrom(s, HostEnd(s), {"?", "#"}) - 1)
  IN  IF p = <<>> THEN <<"/">> ELSE p

(***************************************************************************)
(* src/har/filter.ts                                                       *)
(***************************************************************************)
\* getEntryKey with the query kept in the key (url.href in place of
\* origin + pathname).
getEntryKeyWithQuery(entry) ==
  entry.method \o <<":">> \o entry.url \o <<":">> \o NumberToString(entry.status)

getEntryKey(entry) ==
  IF UrlParses(entry.url)
    THEN entry.method \o <<":">> \o UrlOrigin(entry.url) \o UrlPathname(entry.url)
           \o <<":">> \o NumberToString(entry.status)
    ELSE entry.method \o <<":">> \o entry.url \o <<":">> \o NumberToString(entry.status)

(***************************************************************************)
(* src/har/merger.ts                                                       *)
(***************************************************************************)
\* entry.response.content.size || 0: size is <<n>>, or <<>> when absent.
BodySize(entry) == IF entry.size = <<>> THEN 0 ELSE entry.size[1]

\* The Map of deduplicateEntries is the sequence of its (key, value) pairs
\* in insertion order; set() on an existing key keeps the key's place.
\* The position of the key in the Map, or 0.
MapIndex(entryMap, key) ==
  IF \E i \in 1..Len(entryMap) : entryMap[i].key = key
    THEN CHOOSE i \in 1..Len(entryMap) : entryMap[i].key = key
    ELSE 0

\* One iteration of the loop of deduplicateEntries that replaces the stored
\* entry whenever the new one is at least as large.
DedupStepLastWins(entryMap, entry) ==
  LET key == getEntryKey(entry)
      i == MapIndex(entryMap, key)
  IN  IF i = 0 THEN Append(entryMap, [key |-> key, value |-> entry])
      ELSE IF BodySize(entry) >= BodySize(entryMap[i].value)
        THEN [entryMap EXCEPT ![i].value = entry]
      ELSE entryMap

\* One iteration of the loop of deduplicateEntries that never looks the key up.
DedupStepKeepAll(entryMap, entry) ==
  Append(entryMap, [key |-> getEntryKey(entry), value |-> entry])

\* One iteration of the loop of deduplicateEntries.
DedupStep(entryMap, entry) ==
  LET key == getEntryKey(entry)
      i == MapIndex(entryMap, key)
  IN  IF i = 0 THEN Append(entryMap, [key |-> key, value |-> entry])
      ELSE IF BodySize(entry) > BodySize(entryMap[i].value)
        THEN [entryMap EXCEPT ![i].value = entry]
      ELSE entryMap

RECURSIVE DedupLoop(_, _)
DedupLoop(entryMap, entries) ==
  IF entries = <<>> THEN entryMap
  ELSE DedupLoop(DedupStep(entryMap, Head(entries)), Tail(entries))

methodOrder == << <<"G","E","T">>, <<"P","O","S","T">>, <<"P","U","T">>,
                  <<"P","A","T","C","H">>, <<"D","E","L","E","T","E">> >>

MethodPriority(entry) == indexOf(methodOrder, toUpperCase(entry.method))

\* The comparator with the method priorities reversed (orderB - orderA).
compareEntriesReversed(a, b) ==
  IF a.url # b.url THEN localeCompare(a.url, b.url)
  ELSE MethodPriority(b) - MethodPriority(a)

\* The comparator handed to Array.prototype.sort.
compareEntries(a, b) ==
  IF a.url # b.url THEN localeCompare(a.url, b.url)
  ELSE MethodPriority(a) - MethodPriority(b)

\* Array.prototype.sort is stable: an element goes after every element
\* already placed that does not compare greater than it.
SortInsert(sorted, e) ==
  LET A == {i \in 1..Len(sorted) : compareEntries(sorted[i], e) <= 0}
      k == IF A = {} THEN 0 ELSE CHOOSE i \in A : \A j \in A : j <= i
  IN  SubSeq(sorted, 1, k) \o <<e>> \o SubSeq(sorted, k + 1, Len(sorted))

RECURSIVE SortLoop(_, _)
SortLoop(sorted, rest) ==
  IF rest = <<>> THEN sorted
  ELSE SortLoop(SortInsert(sorted, Head(rest)), Tail(rest))

sortEntries(entries) == SortLoop(<<>>, entries)

\* Array.from(entryMap.values())
MapValues(entryMap) == [i \in 1..Len(entryMap) |-> entryMap[i].value]

deduplicateEntries(entries) == sortEntries(MapValues(DedupLoop(<<>>, entries)))

\* harFiles.flatMap(har => har.log.entries)
RECURSIVE flatMapEntries(_)
flatMapEntries(files) ==
  IF files = <<>> THEN <<>>
  ELSE Head(files).entries \o flatMapEntries(Tail(files))

MergedCreator == "skylight-har2openapi"

\* mergeHarFiles without the early return for a single file.
mergeHarFilesNoEarlyReturn(files) ==
  IF Len(files) = 0 THEN [kind |-> "threw", har |-> <<>>]
  ELSE [kind |-> "returned",
        har |-> << [creator |-> MergedCreator,
                    entries |-> deduplicateEntries(flatMapEntries(files))] >>]

mergeHarFiles(files) ==
  IF Len(files) = 0 THEN [kind |-> "threw", har |-> <<>>]
  ELSE IF Len(files) = 1 THEN [kind |-> "returned", har |-> <<files[1]>>]
  ELSE [kind |-> "returned",
        har |-> << [creator |-> MergedCreator,
                    entries |-> deduplicateEntries(flatMapEntries(files))] >>]

(***************************************************************************)
(* converter/path-normalizer.ts                                            *)
(***************************************************************************)
\* The character classes of the patterns. The i flag lets [a-f0-9-] match
\* upper-case hex digits as well.
DigitChars == {Digits[i] : i \in 1..Len(Digits)}

HexChars == DigitChars \cup {"a","b","c","d","e","f","A","B","C","D","E","F"}

HexDashChars == HexChars \cup {"-"}

\* \w
WordChars == DigitChars \cup DOMAIN UpperOf \cup DOMAIN LowerOf \cup {"_"}

\* The lengths of the hex groups of the UUID pattern.
UuidGroups == <<8, 4, 4, 4, 12>>

\* The least number of digits of the numeric ID pattern: \d{5,}
MinIdDigits == 5

\* { pattern: /\/<word>\/([a-f0-9-]+)/gi, replacement: '/<word>/{<param>}' }
FamilyRule(word, param) ==
  [kind |-> "family",
   literal |-> <<"/">> \o word \o <<"/">>,
   replacement |-> <<"/">> \o word \o <<"/", "{">> \o param \o <<"}">>]

IdReplacement == <<"/", "{", "i", "d", "}">>

PATH_PARAM_PATTERNS ==
  << FamilyRule(<<"f","r","a","m","e","s">>,
                <<"f","r","a","m","e","I","d">>),
     FamilyRule(<<"l","i","s","t","s">>,
                <<"l","i","s","t","I","d">>),
     FamilyRule(<<"c","h","o","r","e","s">>,
                <<"c","h","o","r","e","I","d">>),
     FamilyRule(<<"c","a","t","e","g","o","r","i","e","s">>,
                <<"c","a","t","e","g","o","r","y","I","d">>),
     FamilyRule(<<"d","e","v","i","c","e","s">>,
                <<"d","e","v","i","c","e","I","d">>),
     FamilyRule(<<"r","e","w","a","r","d","s">>,
                <<"r","e","w","a","r","d","I","d">>),
     FamilyRule(<<"r","e","w","a","r","d","_","p","o","i","n","t","s">>,
                <<"r","e","w","a","r","d","P","o","i","n","t","I","d">>),
     FamilyRule(<<"i","t","e","m","s">>,
                <<"i","t","e","m","I","d">>),
     FamilyRule(<<"s","o","u","r","c","e","_","c","a","l","e","n","d","a","r","s">>,
                <<"s","o","u","r","c","e","C","a","l","e","n","d","a","r","I","d">>),
     FamilyRule(<<"c","a","l","e","n","d","a","r","_","e","v","e","n","t","s">>,
                <<"c","a","l","e","n","d","a","r","E","v","e","n","t","I","d">>),
     [kind |-> "uuid", literal |-> <<"/">>, replacement |-> IdReplacement],
     [kind |-> "digits", literal |-> <<"/">>, replacement |-> IdReplacement] >>

\* The last position of the longest run of characters of the class that
\* starts at position from; from - 1 when s[from] is not in the class.
RECURSIVE RunEnd(_, _, _)
RunEnd(s, from, class) ==
  IF from > Len(s) \/ s[from] \notin class THEN from - 1
  ELSE RunEnd(s, from + 1, class)

\* The characters after position at have the shape of the groups: runs of
\* hex digits of the given lengths, separated by "-". The position of the
\* last character, or 0 when the shape does not match.
RECURSIVE GroupsEnd(_, _, _)
GroupsEnd(s, at, groups) ==
  LET n == Head(groups)
  IN  IF at + n > Len(s) \/ \E k \in 1..n : s[at + k] \notin HexChars THEN 0
      ELSE IF Len(groups) = 1 THEN at + n
      ELSE IF at + n + 1 > Len(s) \/ s[at + n + 1] # "-" THEN 0
      ELSE GroupsEnd(s, at + n + 1, Tail(groups))

\* The last position of the match of the rule's pattern that starts at
\* position i of s, or 0 when the pattern does not match there. Quantifiers
\* are greedy.
MatchEnd(s, i, rule) ==
  LET n == Len(rule.literal)
  IN  IF s[i] # "/" THEN 0
      ELSE IF i + n - 1 > Len(s) \/ toLowerCase(SubSeq(s, i, i + n - 1)) # rule.literal THEN 0
      ELSE IF rule.kind = "family"
        THEN (IF RunEnd(s, i + n, HexDashChars) >= i + n
                THEN RunEnd(s, i + n, HexDashChars) ELSE 0)
      ELSE IF rule.kind = "uuid" THEN GroupsEnd(s, i, UuidGroups)
      ELSE (IF RunEnd(s, i + 1, DigitChars) >= i + MinIdDigits
              THEN RunEnd(s, i + 1, DigitChars) ELSE 0)

\* The first position at or after i where the rule's pattern matches, or 0.
\* Every pattern starts with "/", so only those positions are tried.
NextMatch(s, i, rule) ==
  LET starts == {j \in i..Len(s) : s[j] = "/" /\ MatchEnd(s, j, rule) # 0}
  IN  IF starts = {} THEN 0
      ELSE CHOOSE j \in starts : \A k \in starts : j <= k

\* s.replace(pattern, replacement) without the g flag: the first match only.
ReplaceFirstOnly(s, i, rule) ==
  LET m == NextMatch(s, i, rule)
  IN  IF m = 0 THEN SubSeq(s, i, Len(s))
      ELSE SubSeq(s, i, m - 1) \o rule.replacement
             \o SubSeq(s, MatchEnd(s, m, rule) + 1, Len(s))

\* s.replace(pattern, replacement) with the g flag, from position i on:
\* every match, left to right, none overlapping.
RECURSIVE ReplaceFrom(_, _, _)
ReplaceFrom(s, i, rule) ==
  LET m == NextMatch(s, i, rule)
  IN  IF m = 0 THEN SubSeq(s, i, Len(s))
      ELSE SubSeq(s, i, m - 1) \o rule.replacement
             \o ReplaceFrom(s, MatchEnd(s, m, rule) + 1, rule)

RECURSIVE ApplyRules(_, _)
ApplyRules(s, rules) ==
  IF rules = <<>> THEN s
  ELSE ApplyRules(ReplaceFrom(s, 1, Head(rules)), Tail(rules))

normalizePath(path) == ApplyRules(path, PATH_PARAM_PATTERNS)

\* The paths the input PathsObject draws its keys from.
PathFrames == <<"/","f","r","a","m","e","s">>
PathFramesA1 == <<"/","f","r","a","m","e","s","/","a","1">>
PathFramesB2 == <<"/","f","r","a","m","e","s","/","b","2">>
PathFramesTemplate == <<"/","f","r","a","m","e","s","/","{","f","r","a","m","e","I","d","}">>
PathFramesNested == <<"/","f","r","a","m","e","s","/","a","1","/","f","r","a","m","e","s","/","b","2">>

InputPaths == {PathFrames, PathFramesA1, PathFramesB2, PathFramesTemplate, PathFramesNested}

\* normalizePath of every input path, computed once.
NormalizedInputPath == [path \in InputPaths |-> normalizePath(path)]

\* The names captured by /\{(\w+)\}/g from position i of the path on.
RECURSIVE ParamNamesFrom(_, _)
ParamNamesFrom(path, i) ==
  IF i > Len(path) THEN <<>>
  ELSE LET e == RunEnd(path, i + 1, WordChars)
       IN  IF path[i] = "{" /\ e >= i + 1 /\ e + 1 <= Len(path) /\ path[e + 1] = "}"
             THEN <<SubSeq(path, i + 1, e)>> \o ParamNamesFrom(path, e + 2)
             ELSE ParamNamesFrom(path, i + 1)

PathParameter(name) ==
  [name |-> name, in |-> "path", required |-> TRUE, type |-> "string"]

extractPathParameters(path) ==
  LET names == ParamNamesFrom(path, 1)
  IN  [i \in 1..Len(names) |-> PathParameter(names[i])]

\* The operation keys that addPathParameters and mergePathItems visit.
methods == <<"get", "post", "put", "patch", "delete", "head", "options">>

\* The keys of a path item that hold operations: the visited ones and trace.
OperationKeys == {methods[i] : i \in 1..Len(methods)} \cup {"trace"}

\* A path item maps each operation key to <<operation>>, or to <<>> when it
\* declares none. An operation is [operationId, parameters].
Declares(pathItem, key) == pathItem[key] # <<>>

\* array.filter(keep)
RECURSIVE SelectSeqBy(_, _)
SelectSeqBy(seq, keep) ==
  IF seq = <<>> THEN <<>>
  ELSE (IF Head(seq) \in keep THEN <<Head(seq)>> ELSE <<>>) \o SelectSeqBy(Tail(seq), keep)

\* The operation with the path parameters it does not declare yet put in
\* front of its own.
WithPathParameters(operation, pathParams) ==
  LET existingParamNames == {operation.parameters[i].name : i \in 1..Len(operation.parameters)}
      fresh == {pathParams[i] : i \in {j \in 1..Len(pathParams) :
                                         pathParams[j].name \notin existingParamNames}}
  IN  [operation EXCEPT !.parameters = SelectSeqBy(pathParams, fresh) \o @]

addPathParameters(pathItem, normalizedPath) ==
  LET pathParams == extractPathParameters(normalizedPath)
  IN  IF Len(pathParams) = 0 THEN pathItem
      ELSE [key \in DOMAIN pathItem |->
              IF indexOf(methods, key) >= 0 /\ Declares(pathItem, key)
                THEN <<WithPathParameters(pathItem[key][1], pathParams)>>
                ELSE pathItem[key]]

\* mergePathItems where the incoming operation replaces the existing one.
mergePathItemsLastWins(existing, incoming) ==
  [key \in DOMAIN existing |->
     IF indexOf(methods, key) >= 0 /\ Declares(incoming, key)
       THEN incoming[key]
       ELSE existing[key]]

mergePathItems(existing, incoming) ==
  [key \in DOMAIN existing |->
     IF indexOf(methods, key) >= 0 /\ Declares(incoming, key) /\ ~Declares(existing, key)
       THEN incoming[key]
       ELSE existing[key]]

\* The position of the template among the keys of normalizedPaths, or 0.
PathIndex(normalizedPaths, template) ==
  IF \E i \in 1..Len(normalizedPaths) : normalizedPaths[i].path = template
    THEN CHOOSE i \in 1..Len(normalizedPaths) : normalizedPaths[i].path = template
    ELSE 0

\* One iteration of the loop of normalizeOpenApiPaths. A PathsObject is the
\* sequence of its (path, item) pairs in key order; the item of a pair is
\* <<pathItem>>, or <<>> for a key whose value is undefined.
NormalizeStep(normalizedPaths, pair) ==
  IF pair.item = <<>> THEN normalizedPaths
  ELSE LET normalizedPath == NormalizedInputPath[pair.path]
           i == PathIndex(normalizedPaths, normalizedPath)
       IN  IF i # 0
             THEN [normalizedPaths EXCEPT
                     ![i].item = <<mergePathItems(normalizedPaths[i].item[1], pair.item[1])>>]
             ELSE Append(normalizedPaths,
                         [path |-> normalizedPath,
                          item |-> <<addPathParameters(pair.item[1], normalizedPath)>>])

RECURSIVE NormalizeLoop(_, _)
NormalizeLoop(normalizedPaths, pairs) ==
  IF pairs = <<>> THEN normalizedPaths
  ELSE NormalizeLoop(NormalizeStep(normalizedPaths, Head(pairs)), Tail(pairs))

normalizeOpenApiPaths(pathsObject) == NormalizeLoop(<<>>, pathsObject)

(***************************************************************************)
(* redaction/patterns.ts                                                   *)
(***************************************************************************)
SENSITIVE_HEADERS ==
  << <<"a","u","t","h","o","r","i","z","a","t","i","o","n">>,
     <<"c","o","o","k","i","e">>,
     <<"s","e","t","-","c","o","o","k","i","e">>,
     <<"x","-","a","p","i","-","k","e","y">>,
     <<"x","-","a","u","t","h","-","t","o","k","e","n">>,
     <<"x","-","a","c","c","e","s","s","-","t","o","k","e","n">>,
     <<"x","-","r","e","f","r","e","s","h","-","t","o","k","e","n">> >>

SENSITIVE_BODY_FIELDS ==
  << <<"e","m","a","i","l">>,
     <<"p","h","o","n","e">>,
     <<"p","h","o","n","e","_","n","u","m","b","e","r">>,
     <<"t","o","k","e","n">>,
     <<"a","c","c","e","s","s","_","t","o","k","e","n">>,
     <<"r","e","f","r","e","s","h","_","t","o","k","e","n">>,
     <<"a","p","i","_","k","e","y">>,
     <<"p","a","s","s","w","o","r","d">>,
     <<"s","e","c","r","e","t">>,
     <<"p","r","o","f","i","l","e","_","p","i","c","_","u","r","l">>,
     <<"a","v","a","t","a","r","_","u","r","l">>,
     <<"f","i","r","s","t","_","n","a","m","e">>,
     <<"l","a","s","t","_","n","a","m","e">>,
     <<"f","u","l","l","_","n","a","m","e">>,
     <<"a","d","d","r","e","s","s">>,
     <<"s","t","r","e","e","t">>,
     <<"c","i","t","y">>,
     <<"z","i","p">>,
     <<"p","o","s","t","a","l","_","c","o","d","e">> >>

ID_BODY_FIELDS ==
  << <<"i","d">>,
     <<"u","s","e","r","_","i","d">>,
     <<"f","r","a","m","e","_","i","d">>,
     <<"l","i","s","t","_","i","d">>,
     <<"c","h","o","r","e","_","i","d">>,
     <<"c","a","t","e","g","o","r","y","_","i","d">>,
     <<"d","e","v","i","c","e","_","i","d">> >>

REDACTION_PLACEHOLDERS ==
  [string |-> <<"R","E","D","A","C","T","E","D">>,
   email |-> <<"u","s","e","r","@","e","x","a","m","p","l","e",".","c","o","m">>,
   phone |-> <<"5","5","5","-","5","5","5","-","5","5","5","5">>,
   id |-> <<"R","E","D","A","C","T","E","D","_","I","D">>,
   url |-> <<"h","t","t","p","s",":","/","/","e","x","a","m","p","l","e",".","c","o","m","/","r","e","d","a","c","t","e","d">>,
   token |-> <<"R","E","D","A","C","T","E","D","_","T","O","K","E","N">>]

\* The character classes of PII_PATTERNS.
LetterChars == DOMAIN UpperOf \cup DOMAIN LowerOf

\* [A-Za-z0-9._%+-]
EmailLocalChars == LetterChars \cup DigitChars \cup {".", "_", "%", "+", "-"}

\* [A-Za-z0-9.-]
EmailDomainChars == LetterChars \cup DigitChars \cup {".", "-"}

\* [A-Z|a-z]
EmailTldChars == LetterChars \cup {"|"}

\* [-.\s]
PhoneSeparators == {"-", ".", " "}

\* [A-Za-z0-9-_]
JwtChars == LetterChars \cup DigitChars \cup {"-", "_"}

JwtPrefix == <<"e","y","J">>

\* \b between the characters at positions i and i + 1 of s (position 0 is
\* before the string, Len(s) + 1 after it).
IsWordAt(s, i) == i >= 1 /\ i <= Len(s) /\ s[i] \in WordChars

WordBoundary(s, i) == IsWordAt(s, i) # IsWordAt(s, i + 1)

\* The greatest element of a non-empty set of positions, 0 for the empty set.
Greatest(positions) ==
  IF positions = {} THEN 0 ELSE CHOOSE e \in positions : \A k \in positions : k <= e

\* /\b[0-9a-f]{8}-[0-9a-f]{4}-[0-9a-f]{4}-[0-9a-f]{4}-[0-9a-f]{12}\b/gi
\* matched at position i: the last position of the match, or 0.
UuidMatchEnd(s, i) ==
  LET e == GroupsEnd(s, i - 1, UuidGroups)
  IN  IF WordBoundary(s, i - 1) /\ e # 0 /\ WordBoundary(s, e) THEN e ELSE 0

\* /\b[A-Za-z0-9._%+-]+@[A-Za-z0-9.-]+\.[A-Z|a-z]{2,}\b/g matched at
\* position i. The local part runs up to the "@"; the domain is greedy, so
\* the last "." that a top-level part of 2 or more characters and a word
\* boundary can follow is taken, and then the longest such top-level part.
EmailMatchEnd(s, i) ==
  LET at == RunEnd(s, i, EmailLocalChars) + 1
      domainEnd == RunEnd(s, at + 1, EmailDomainChars)
      TldEnd(dot) ==
        Greatest({e \in (dot + 2)..RunEnd(s, dot + 1, EmailTldChars) : WordBoundary(s, e)})
      dots == {d \in (at + 2)..domainEnd : s[d] = "." /\ TldEnd(d) # 0}
  IN  IF /\ WordBoundary(s, i - 1)
         /\ at > i /\ at <= Len(s) /\ s[at] = "@"
         /\ dots # {}
        THEN TldEnd(Greatest(dots))
        ELSE 0

\* /\b\d{3}[-.\s]?\d{3}[-.\s]?\d{4}\b/g matched at position i.
PhoneMatchEnd(s, i) ==
  LET AllDigits(from, n) ==
        from + n - 1 <= Len(s) /\ \A k \in from..(from + n - 1) : s[k] \in DigitChars
      SkipSeparator(from) ==
        IF from <= Len(s) /\ s[from] \in PhoneSeparators THEN from + 1 ELSE from
      second == SkipSeparator(i + 3)
      third == SkipSeparator(second + 3)
  IN  IF /\ WordBoundary(s, i - 1)
         /\ AllDigits(i, 3) /\ AllDigits(second, 3) /\ AllDigits(third, 4)
         /\ WordBoundary(s, third + 3)
        THEN third + 3
        ELSE 0

\* /\beyJ[A-Za-z0-9-_]+\.[A-Za-z0-9-_]+\.[A-Za-z0-9-_]+\b/g matched at
\* position i. The last part is the longest one that ends at a word boundary.
JwtMatchEnd(s, i) ==
  LET firstEnd == RunEnd(s, i + Len(JwtPrefix), JwtChars)
      secondEnd == RunEnd(s, firstEnd + 2, JwtChars)
      thirdEnd == RunEnd(s, secondEnd + 2, JwtChars)
  IN  IF /\ WordBoundary(s, i - 1)
         /\ i + Len(JwtPrefix) - 1 <= Len(s)
         /\ SubSeq(s, i, i + Len(JwtPrefix) - 1) = JwtPrefix
         /\ firstEnd >= i + Len(JwtPrefix)
         /\ firstEnd + 1 <= Len(s) /\ s[firstEnd + 1] = "."
         /\ secondEnd >= firstEnd + 2
         /\ secondEnd + 1 <= Len(s) /\ s[secondEnd + 1] = "."
        THEN Greatest({e \in (secondEnd + 2)..thirdEnd : WordBoundary(s, e)})
        ELSE 0

\* PII_PATTERNS[name]() matched at position i.
PiiMatchEnd(name, s, i) ==
  IF name = "email" THEN EmailMatchEnd(s, i)
  ELSE IF name = "phone" THEN PhoneMatchEnd(s, i)
  ELSE IF name = "uuid" THEN UuidMatchEnd(s, i)
  ELSE JwtMatchEnd(s, i)

\* PII_PATTERNS[name]().test(s): a fresh regular expression, so the search
\* starts at the beginning of s.
PiiTest(name, s) == \E i \in 1..Len(s) : PiiMatchEnd(name, s, i) # 0

\* s.replace(PII_PATTERNS[name](), placeholder) from position i on.
RECURSIVE PiiReplaceFrom(_, _, _, _)
PiiReplaceFrom(name, s, i, placeholder) ==
  LET starts == {j \in i..Len(s) : PiiMatchEnd(name, s, j) # 0}
  IN  IF starts = {} THEN SubSeq(s, i, Len(s))
      ELSE LET m == CHOOSE j \in starts : \A k \in starts : j <= k
           IN  SubSeq(s, i, m - 1) \o placeholder
                 \o PiiReplaceFrom(name, s, PiiMatchEnd(name, s, m) + 1, placeholder)

\* String.prototype.includes
includes(s, sub) ==
  \E i \in 1..(Len(s) - Len(sub) + 1) : SubSeq(s, i, i + Len(sub) - 1) = sub

(***************************************************************************)
(* redaction/headers.ts                                                    *)
(***************************************************************************)
\* redactHeader that compares the name as it is written.
redactHeaderCaseSensitive(header) ==
  IF indexOf(SENSITIVE_HEADERS, header.name) >= 0
    THEN [header EXCEPT !.value = REDACTION_PLACEHOLDERS.token]
    ELSE header

\* A header is [name, value].
redactHeader(header) ==
  LET lowerName == toLowerCase(header.name)
  IN  IF indexOf(SENSITIVE_HEADERS, lowerName) >= 0
        THEN [header EXCEPT !.value = REDACTION_PLACEHOLDERS.token]
        ELSE header

redactHeaders(headers) == [i \in 1..Len(headers) |-> redactHeader(headers[i])]

(***************************************************************************)
(* redaction/body.ts                                                       *)
(*                                                                         *)
(* A decoded JSON value is [t, v]: t is its type and v its content (the    *)
(* elements of an array, the [key, value] entries of an object in          *)
(* insertion order).                                                       *)
(***************************************************************************)
JNull == [t |-> "null", v |-> <<>>]
JBool(b) == [t |-> "boolean", v |-> b]
JNum(n) == [t |-> "number", v |-> n]
\* A number that is not an integer, in tenths (tenths % 10 # 0).
JReal(tenths) == [t |-> "real", v |-> tenths]
JStr(s) == [t |-> "string", v |-> s]
JArr(items) == [t |-> "array", v |-> items]
JObj(entries) == [t |-> "object", v |-> entries]

redactStringValue(value) ==
  LET afterEmail == PiiReplaceFrom("email", value, 1, REDACTION_PLACEHOLDERS.email)
      afterPhone == PiiReplaceFrom("phone", afterEmail, 1, REDACTION_PLACEHOLDERS.phone)
  IN  PiiReplaceFrom("jwt", afterPhone, 1, REDACTION_PLACEHOLDERS.token)

getRedactedValue(fieldName, originalValue) ==
  LET lowerName == toLowerCase(fieldName)
  IN  IF includes(lowerName, <<"e","m","a","i","l">>)
        THEN JStr(REDACTION_PLACEHOLDERS.email)
      ELSE IF includes(lowerName, <<"p","h","o","n","e">>)
        THEN JStr(REDACTION_PLACEHOLDERS.phone)
      ELSE IF includes(lowerName, <<"u","r","l">>)
        THEN JStr(REDACTION_PLACEHOLDERS.url)
      ELSE IF \/ includes(lowerName, <<"t","o","k","e","n">>)
              \/ includes(lowerName, <<"k","e","y">>)
              \/ includes(lowerName, <<"s","e","c","r","e","t">>)
        THEN JStr(REDACTION_PLACEHOLDERS.token)
      ELSE IF originalValue.t = "string"
        THEN JStr(REDACTION_PLACEHOLDERS.string)
      ELSE originalValue

redactIdValue(value) ==
  IF value.t = "string" /\ PiiTest("uuid", value.v)
    THEN JStr(REDACTION_PLACEHOLDERS.id)
    ELSE value

RECURSIVE redactBody(_)
RECURSIVE redactObject(_)
redactBody(data) ==
  IF data.t = "null" THEN data
  ELSE IF data.t = "string" THEN JStr(redactStringValue(data.v))
  ELSE IF data.t \in {"number", "real", "boolean"} THEN data
  ELSE IF data.t = "array" THEN JArr([i \in 1..Len(data.v) |-> redactBody(data.v[i])])
  ELSE redactObject(data)

redactObject(obj) ==
  JObj([i \in 1..Len(obj.v) |->
          LET key == obj.v[i].key
              value == obj.v[i].value
              lowerKey == toLowerCase(key)
          IN  [key |-> key,
               value |-> IF indexOf(SENSITIVE_BODY_FIELDS, lowerKey) >= 0
                           THEN getRedactedValue(key, value)
                         ELSE IF indexOf(ID_BODY_FIELDS, lowerKey) >= 0
                           THEN redactIdValue(value)
                         ELSE redactBody(value)]])


(***************************************************************************)
(* JSON.parse and JSON.stringify, for texts without escape sequences,      *)
(* fractions or exponents. White space is the space character.             *)
(***************************************************************************)
ParseFailed == [ok |-> FALSE, value |-> JNull, next |-> 0]

Parsed(value, next) == [ok |-> TRUE, value |-> value, next |-> next]

\* The first position at or after i that holds no white space.
SkipWhiteSpace(s, i) == RunEnd(s, i, {" "}) + 1

\* The text has the word at position i.
HasAt(s, i, word) ==
  i + Len(word) - 1 <= Len(s) /\ SubSeq(s, i, i + Len(word) - 1) = word

\* The number written by the digits.
RECURSIVE DigitsToNumber(_)
DigitsToNumber(digits) ==
  IF digits = <<>> THEN 0
  ELSE 10 * DigitsToNumber(SubSeq(digits, 1, Len(digits) - 1))
         + indexOf(Digits, digits[Len(digits)])

\* obj[key] = value on the entries of an object: a new key is appended, an
\* existing key keeps its position and takes the new value.
SetProperty(entries, key, value) ==
  IF \E i \in 1..Len(entries) : entries[i].key = key
    THEN [i \in 1..Len(entries) |->
            IF entries[i].key = key THEN [key |-> key, value |-> value] ELSE entries[i]]
    ELSE Append(entries, [key |-> key, value |-> value])

RECURSIVE ParseValue(_, _)
RECURSIVE ParseElements(_, _, _)
RECURSIVE ParseMembers(_, _, _)
\* The JSON value that starts at the first non-white-space position at or
\* after i, and the position after it.
ParseValue(s, i) ==
  LET at == SkipWhiteSpace(s, i)
  IN  IF at > Len(s) THEN ParseFailed
      ELSE IF s[at] = "{" THEN
        (IF SkipWhiteSpace(s, at + 1) <= Len(s) /\ s[SkipWhiteSpace(s, at + 1)] = "}"
           THEN Parsed(JObj(<<>>), SkipWhiteSpace(s, at + 1) + 1)
           ELSE ParseMembers(s, at + 1, <<>>))
      ELSE IF s[at] = "[" THEN
        (IF SkipWhiteSpace(s, at + 1) <= Len(s) /\ s[SkipWhiteSpace(s, at + 1)] = "]"
           THEN Parsed(JArr(<<>>), SkipWhiteSpace(s, at + 1) + 1)
           ELSE ParseElements(s, at + 1, <<>>))
      ELSE IF s[at] = "\"" THEN
        (LET close == FindFrom(s, at + 1, {"\""})
         IN  IF close > Len(s) THEN ParseFailed
             ELSE Parsed(JStr(SubSeq(s, at + 1, close - 1)), close + 1))
      ELSE IF s[at] \in DigitChars THEN
        (LET e == RunEnd(s, at, DigitChars)
         IN  IF s[at] = "0" /\ e > at THEN ParseFailed
             ELSE Parsed(JNum(DigitsToNumber(SubSeq(s, at, e))), e + 1))
      ELSE IF HasAt(s, at, <<"t","r","u","e">>) THEN Parsed(JBool(TRUE), at + 4)
      ELSE IF HasAt(s, at, <<"f","a","l","s","e">>) THEN Parsed(JBool(FALSE), at + 5)
      ELSE IF HasAt(s, at, <<"n","u","l","l">>) THEN Parsed(JNull, at + 4)
      ELSE ParseFailed

\* The elements of an array from position i on, after the elements read.
ParseElements(s, i, items) ==
  LET element == ParseValue(s, i)
      after == SkipWhiteSpace(s, element.next)
  IN  IF ~element.ok \/ after > Len(s) THEN ParseFailed
      ELSE IF s[after] = "]" THEN Parsed(JArr(Append(items, element.value)), after + 1)
      ELSE IF s[after] = "," THEN ParseElements(s, after + 1, Append(items, element.value))
      ELSE ParseFailed

\* The members of an object from position i on, after the entries read.
ParseMembers(s, i, entries) ==
  LET at == SkipWhiteSpace(s, i)
      name == IF at <= Len(s) /\ s[at] = "\"" THEN ParseValue(s, at) ELSE ParseFailed
      colon == SkipWhiteSpace(s, name.next)
      member == IF name.ok /\ colon <= Len(s) /\ s[colon] = ":"
                  THEN ParseValue(s, colon + 1) ELSE ParseFailed
      after == SkipWhiteSpace(s, member.next)
  IN  IF ~member.ok \/ after > Len(s) THEN ParseFailed
      ELSE IF s[after] = "}"
        THEN Parsed(JObj(SetProperty(entries, name.value.v, member.value)), after + 1)
      ELSE IF s[after] = ","
        THEN ParseMembers(s, after + 1, SetProperty(entries, name.value.v, member.value))
      ELSE ParseFailed

\* JSON.parse(text): <<value>>, or <<>> when it throws a SyntaxError.
JsonParse(text) ==
  LET r == ParseValue(text, 1)
  IN  IF r.ok /\ SkipWhiteSpace(text, r.next) > Len(text) THEN <<r.value>> ELSE <<>>

\* parts.join(",")
RECURSIVE JoinComma(_)
JoinComma(parts) ==
  IF parts = <<>> THEN <<>>
  ELSE IF Len(parts) = 1 THEN parts[1]
  ELSE parts[1] \o <<",">> \o JoinComma(Tail(parts))

\* JSON.stringify(value)
RECURSIVE JsonStringify(_)
JsonStringify(value) ==
  IF value.t = "null" THEN <<"n","u","l","l">>
  ELSE IF value.t = "boolean"
    THEN (IF value.v THEN <<"t","r","u","e">> ELSE <<"f","a","l","s","e">>)
  ELSE IF value.t = "number" THEN NumberToString(value.v)
  ELSE IF value.t = "real"
    THEN NumberToString(value.v \div 10) \o <<".">> \o NumberToString(value.v % 10)
  ELSE IF value.t = "string" THEN <<"\"">> \o value.v \o <<"\"">>
  ELSE IF value.t = "array"
    THEN <<"[">> \o JoinComma([i \in 1..Len(value.v) |-> JsonStringify(value.v[i])])
           \o <<"]">>
  ELSE <<"{">> \o JoinComma([i \in 1..Len(value.v) |->
                               <<"\"">> \o value.v[i].key \o <<"\"", ":">>
                                 \o JsonStringify(value.v[i].value)])
         \o <<"}">>

(***************************************************************************)
(* redaction/url.ts and redaction/index.ts                                 *)
(*                                                                         *)
(* An optional field is <<>> when it is undefined and <<x>> when it is x.  *)
(***************************************************************************)
\* redactQueryParam that tests the email pattern before the UUID pattern.
redactQueryParamEmailFirst(param) ==
  IF PiiTest("email", param.value)
    THEN [param EXCEPT !.value = REDACTION_PLACEHOLDERS.email]
  ELSE IF PiiTest("uuid", param.value)
    THEN [param EXCEPT !.value = REDACTION_PLACEHOLDERS.id]
  ELSE IF PiiTest("jwt", param.value)
    THEN [param EXCEPT !.value = REDACTION_PLACEHOLDERS.token]
  ELSE param

\* A query parameter is [name, value].
redactQueryParam(param) ==
  IF PiiTest("uuid", param.value)
    THEN [param EXCEPT !.value = REDACTION_PLACEHOLDERS.id]
  ELSE IF PiiTest("email", param.value)
    THEN [param EXCEPT !.value = REDACTION_PLACEHOLDERS.email]
  ELSE IF PiiTest("jwt", param.value)
    THEN [param EXCEPT !.value = REDACTION_PLACEHOLDERS.token]
  ELSE param

redactQueryString(queryString) ==
  [i \in 1..Len(queryString) |-> redactQueryParam(queryString[i])]

redactJsonContent(text) ==
  LET parsed == JsonParse(text)
  IN  IF parsed = <<>> THEN text
      ELSE JsonStringify(redactBody(parsed[1]))

MimeJson == <<"j","s","o","n">>

\* RedactedText that redacts whatever the media type is.
RedactedTextAnyType(text, mimeType) ==
  IF text # <<>> /\ text[1] # <<>>
    THEN <<redactJsonContent(text[1])>>
    ELSE text

\* The text of a body after redaction: redacted when it is a non-empty
\* string and the media type contains "json".
RedactedText(text, mimeType) ==
  IF text # <<>> /\ text[1] # <<>> /\ includes(mimeType, MimeJson)
    THEN <<redactJsonContent(text[1])>>
    ELSE text

\* A form parameter is [name, value], the value optional.
redactParam(param) ==
  [param EXCEPT !.value = IF @ # <<>> /\ @[1] # <<>>
                            THEN <<REDACTION_PLACEHOLDERS.string>> ELSE <<>>]

\* postData is [mimeType, text, params], text and params optional.
redactPostData(postData) ==
  [postData EXCEPT
     !.text = RedactedText(@, postData.mimeType),
     !.params = IF @ = <<>> THEN <<>>
                ELSE <<[i \in 1..Len(@[1]) |-> redactParam(@[1][i])]>>]

\* content is [mimeType, text], text optional.
redactContent(content) ==
  [content EXCEPT !.text = RedactedText(@, content.mimeType)]

\* An entry is [request, response]; the request carries url, headers,
\* cookies, queryString and the optional postData, the response headers,
\* cookies and content.
redactEntry(entry) ==
  [request |-> [entry.request EXCEPT
                  !.headers = redactHeaders(@),
                  !.cookies = <<>>,
                  !.queryString = redactQueryString(@),
                  !.postData = IF @ # <<>> THEN <<redactPostData(@[1])>> ELSE <<>>],
   response |-> [entry.response EXCEPT
                   !.headers = redactHeaders(@),
                   !.cookies = <<>>,
                   !.content = redactContent(@)]]

\* A HAR file is [creator, entries].
redactHarFile(har) ==
  [har EXCEPT !.entries = [i \in 1..Len(@) |-> redactEntry(@[i])]]

(***************************************************************************)
(* redaction/url.ts: redactUrl                                             *)
(***************************************************************************)
\* An entry of PATH_ID_PATTERNS: /\/<word>\/([a-f0-9-]+)/i and its paramName.
PathIdPattern(word, paramName) ==
  [kind |-> "family", literal |-> <<"/">> \o word \o <<"/">>, paramName |-> paramName]

PATH_ID_PATTERNS ==
  << PathIdPattern(<<"f","r","a","m","e","s">>,
                   <<"f","r","a","m","e","I","d">>),
     PathIdPattern(<<"l","i","s","t","s">>,
                   <<"l","i","s","t","I","d">>),
     PathIdPattern(<<"c","h","o","r","e","s">>,
                   <<"c","h","o","r","e","I","d">>),
     PathIdPattern(<<"c","a","t","e","g","o","r","i","e","s">>,
                   <<"c","a","t","e","g","o","r","y","I","d">>),
     PathIdPattern(<<"d","e","v","i","c","e","s">>,
                   <<"d","e","v","i","c","e","I","d">>),
     PathIdPattern(<<"r","e","w","a","r","d","s">>,
                   <<"r","e","w","a","r","d","I","d">>),
     PathIdPattern(<<"r","e","w","a","r","d","_","p","o","i","n","t","s">>,
                   <<"r","e","w","a","r","d","P","o","i","n","t","I","d">>),
     PathIdPattern(<<"i","t","e","m","s">>,
                   <<"i","t","e","m","I","d">>),
     PathIdPattern(<<"s","o","u","r","c","e","_","c","a","l","e","n","d","a","r","s">>,
                   <<"s","o","u","r","c","e","C","a","l","e","n","d","a","r","I","d">>),
     PathIdPattern(<<"c","a","l","e","n","d","a","r","_","e","v","e","n","t","s">>,
                   <<"c","a","l","e","n","d","a","r","E","v","e","n","t","I","d">>) >>

\* The concatenation of the pieces, in order.
RECURSIVE Concat(_)
Concat(pieces) ==
  IF pieces = <<>> THEN <<>>
  ELSE IF Len(pieces) = 1 THEN pieces[1]
  ELSE LET half == Len(pieces) \div 2
       IN  Concat(SubSeq(pieces, 1, half)) \o Concat(SubSeq(pieces, half + 1, Len(pieces)))

\* paramName.replace(/([A-Z])/g, '_$1')
UnderscoreCapitals(name) ==
  Concat([i \in 1..Len(name) |->
            IF name[i] \in DOMAIN LowerOf THEN <<"_", name[i]>> ELSE <<name[i]>>])

\* paramName.replace(/([A-Z])/g, '_$1').toLowerCase().replace(/^_/, '')
SnakeCase(name) ==
  LET lower == toLowerCase(UnderscoreCapitals(name))
  IN  IF lower # <<>> /\ lower[1] = "_" THEN Tail(lower) ELSE lower

\* `/${snake}s/{${paramName}}`
PathIdReplacement(paramName) ==
  <<"/">> \o SnakeCase(paramName) \o <<"s", "/", "{">> \o paramName \o <<"}">>

\* One iteration of redactUrl's loop over PATH_ID_PATTERNS: the first match
\* of the pattern (no g flag) is recorded and replaced.
RedactUrlStep(acc, pattern) ==
  LET url == acc.redactedUrl
      m == NextMatch(url, 1, pattern)
      e == MatchEnd(url, m, pattern)
  IN  IF m = 0 THEN acc
      ELSE [redactedUrl |->
              SubSeq(url, 1, m - 1) \o PathIdReplacement(pattern.paramName)
                \o SubSeq(url, e + 1, Len(url)),
            pathParams |->
              Append(acc.pathParams,
                     [name |-> pattern.paramName,
                      originalValue |-> SubSeq(url, m + Len(pattern.literal), e)])]

RECURSIVE RedactUrlLoop(_, _)
RedactUrlLoop(acc, patterns) ==
  IF patterns = <<>> THEN acc
  ELSE RedactUrlLoop(RedactUrlStep(acc, Head(patterns)), Tail(patterns))

\* The pieces of s between the separators.
RECURSIVE SplitBy(_, _)
SplitBy(s, sep) ==
  LET e == FindFrom(s, 1, {sep})
  IN  IF e > Len(s) THEN <<s>>
      ELSE <<SubSeq(s, 1, e - 1)>> \o SplitBy(SubSeq(s, e + 1, Len(s)), sep)

\* The characters application/x-www-form-urlencoded leaves as they are.
FormSafeChars == DigitChars \cup LetterChars \cup {"*", "-", ".", "_"}

\* The percent codes of the other characters the model's URLs hold.
PercentCode ==
  [c \in {"{", "}", "/", ":", "@", "=", "&", "?", "%", "+"} |->
     CASE c = "{" -> <<"%","7","B">>
       [] c = "}" -> <<"%","7","D">>
       [] c = "/" -> <<"%","2","F">>
       [] c = ":" -> <<"%","3","A">>
       [] c = "@" -> <<"%","4","0">>
       [] c = "=" -> <<"%","3","D">>
       [] c = "&" -> <<"%","2","6">>
       [] c = "?" -> <<"%","3","F">>
       [] c = "%" -> <<"%","2","5">>
       [] c = "+" -> <<"%","2","B">>]

\* URLSearchParams.prototype.toString on one name or value.
FormEncode(s) ==
  Concat([i \in 1..Len(s) |->
            IF s[i] \in FormSafeChars THEN <<s[i]>>
            ELSE IF s[i] = " " THEN <<"+">>
            ELSE PercentCode[s[i]]])

\* The decoding new URLSearchParams(search) applies to a name or value:
\* "+" is a space, a percent code is its character.
FormDecode(s) ==
  LET codes == {i \in 1..(Len(s) - 2) :
                  \E c \in DOMAIN PercentCode : PercentCode[c] = SubSeq(s, i, i + 2)}
  IN  Concat([i \in 1..Len(s) |->
                IF i \in codes
                  THEN <<CHOOSE c \in DOMAIN PercentCode : PercentCode[c] = SubSeq(s, i, i + 2)>>
                ELSE IF (i - 1) \in codes \/ (i - 2) \in codes THEN <<>>
                ELSE IF s[i] = "+" THEN <<" ">>
                ELSE <<s[i]>>])

\* new URLSearchParams(urlObj.search).entries(): the name=value pieces
\* between the "&", split at their first "=".
SearchParams(search) ==
  LET body == IF search # <<>> /\ search[1] = "?" THEN Tail(search) ELSE search
      pieces == SelectSeq(SplitBy(body, "&"), LAMBDA piece : piece # <<>>)
  IN  [i \in 1..Len(pieces) |->
         LET eq == FindFrom(pieces[i], 1, {"="})
         IN  [key |-> FormDecode(SubSeq(pieces[i], 1, eq - 1)),
              value |-> FormDecode(SubSeq(pieces[i], eq + 1, Len(pieces[i])))]]

\* URLSearchParams.prototype.set: the first pair of the name takes the
\* value and the later ones go; a new name is appended.
SetParam(params, key, value) ==
  LET here == {i \in 1..Len(params) : params[i].key = key}
  IN  IF here = {} THEN Append(params, [key |-> key, value |-> value])
      ELSE LET first == CHOOSE i \in here : \A j \in here : i <= j
           IN  SelectSeq([i \in 1..Len(params) |->
                            IF i = first THEN [key |-> key, value |-> value]
                            ELSE IF i \in here THEN [key |-> <<>>, value |-> <<"?">>]
                            ELSE params[i]],
                         LAMBDA param : param # [key |-> <<>>, value |-> <<"?">>])

\* redactUrl's loop over the query parameters: a value that is a UUID
\* becomes the ID placeholder.
RECURSIVE RedactParams(_, _)
RedactParams(redactedParams, params) ==
  IF params = <<>> THEN redactedParams
  ELSE LET value == Head(params).value
           isUuid == Len(value) > 0 /\ GroupsEnd(value, 0, UuidGroups) = Len(value)
       IN  RedactParams(
             SetParam(redactedParams, Head(params).key,
                      IF isUuid THEN REDACTION_PLACEHOLDERS.id ELSE value),
             Tail(params))

\* redactedParams.toString()
RECURSIVE ParamsToString(_)
ParamsToString(params) ==
  IF params = <<>> THEN <<>>
  ELSE FormEncode(Head(params).key) \o <<"=">> \o FormEncode(Head(params).value)
         \o (IF Len(params) > 1 THEN <<"&">> ELSE <<>>)
         \o ParamsToString(Tail(params))

\* The path as the URL serializer writes it: { and } are percent-encoded.
EncodePath(path) ==
  Concat([i \in 1..Len(path) |->
            IF path[i] \in {"{", "}"} THEN PercentCode[path[i]] ELSE <<path[i]>>])

\* urlObj.search
UrlSearch(s) ==
  LET q == FindFrom(s, HostEnd(s), {"?"})
  IN  IF q > Len(s) \/ q = Len(s) THEN <<>> ELSE SubSeq(s, q, Len(s))

\* The second half of redactUrl: the URL is parsed, its query rewritten and
\* the URL serialized again; a string new URL rejects is returned as it is.
RedactUrlQuery(url) ==
  IF ~UrlParses(url) THEN url
  ELSE LET search == ParamsToString(RedactParams(<<>>, SearchParams(UrlSearch(url))))
       IN  UrlOrigin(url) \o EncodePath(UrlPathname(url))
             \o (IF search = <<>> THEN <<>> ELSE <<"?">> \o search)

redactUrl(url) ==
  LET replaced == RedactUrlLoop([redactedUrl |-> url, pathParams |-> <<>>], PATH_ID_PATTERNS)
  IN  [redactedUrl |-> RedactUrlQuery(replaced.redactedUrl),
       pathParams |-> replaced.pathParams]

(***************************************************************************)
(* schema/inferrer.ts                                                      *)
(*                                                                         *)
(* A JSONSchema is a record of its fields, each <<>> when undefined and    *)
(* <<x>> when it is x. type is the sequence of its type names: one name    *)
(* for a string, several for an array of names, none when undefined.       *)
(* properties holds the [key, value] entries in insertion order.           *)
(***************************************************************************)
EmptySchema ==
  [type |-> <<>>, format |-> <<>>, description |-> <<>>, pattern |-> <<>>,
   nullable |-> <<>>, items |-> <<>>, properties |-> <<>>, required |-> <<>>,
   additionalProperties |-> <<>>, oneOf |-> <<>>]

TypedSchema(type) == [EmptySchema EXCEPT !.type = <<type>>]

\* The string has exactly the characters the shape lists, class by class.
MatchesShape(value, shape) ==
  Len(value) = Len(shape) /\ \A i \in 1..Len(shape) : value[i] \in shape[i]

\* The string starts with characters of the shape.
StartsWithShape(value, shape) ==
  Len(value) >= Len(shape) /\ MatchesShape(SubSeq(value, 1, Len(shape)), shape)

\* /^\d{4}-\d{2}-\d{2}$/
DateShape ==
  <<DigitChars, DigitChars, DigitChars, DigitChars, {"-"},
    DigitChars, DigitChars, {"-"}, DigitChars, DigitChars>>

\* /^\d{2}:\d{2}$/
TimeShape == <<DigitChars, DigitChars, {":"}, DigitChars, DigitChars>>

\* /^\d{4}-\d{2}-\d{2}T\d{2}:\d{2}:\d{2}/
DateTimeShape == DateShape \o <<{"T"}>> \o TimeShape \o <<{":"}, DigitChars, DigitChars>>

\* [0-9A-Fa-f]{6}
HexColorShape == [i \in 1..6 |-> HexChars]

\* /^https?:\/\//
IsUri(value) ==
  \/ HasAt(value, 1, <<"h","t","t","p",":","/","/">>)
  \/ HasAt(value, 1, <<"h","t","t","p","s",":","/","/">>)

\* /^[a-zA-Z0-9._%+-]+@[a-zA-Z0-9.-]+\.[a-zA-Z]{2,}$/
IsEmailAddress(value) ==
  \E at \in 2..Len(value), dot \in 3..Len(value) :
    /\ value[at] = "@" /\ value[dot] = "."
    /\ dot >= at + 2 /\ Len(value) >= dot + 2
    /\ \A i \in 1..(at - 1) : value[i] \in EmailLocalChars
    /\ \A i \in (at + 1)..(dot - 1) : value[i] \in EmailDomainChars
    /\ \A i \in (dot + 1)..Len(value) : value[i] \in LetterChars

HexColorPattern == <<"^","#","?","[","0","-","9","A","-","F","a","-","f","]","{","6","}","$">>

inferStringSchema(value) ==
  LET schema == TypedSchema("string")
  IN  IF MatchesShape(value, DateShape)
        THEN [schema EXCEPT !.format = <<"date">>]
      ELSE IF StartsWithShape(value, DateTimeShape)
        THEN [schema EXCEPT !.format = <<"date-time">>]
      ELSE IF Len(value) > 0 /\ GroupsEnd(value, 0, UuidGroups) = Len(value)
        THEN [schema EXCEPT !.format = <<"uuid">>]
      ELSE IF IsUri(value)
        THEN [schema EXCEPT !.format = <<"uri">>]
      ELSE IF \/ MatchesShape(value, HexColorShape)
              \/ (Len(value) > 0 /\ value[1] = "#" /\ MatchesShape(Tail(value), HexColorShape))
        THEN [schema EXCEPT !.pattern = <<HexColorPattern>>,
                            !.description = <<"Hex color">>]
      ELSE IF MatchesShape(value, TimeShape)
        THEN [schema EXCEPT !.format = <<"time">>,
                            !.description = <<"Time in HH:MM format">>]
      ELSE IF IsEmailAddress(value)
        THEN [schema EXCEPT !.format = <<"email">>]
      ELSE schema

\* seq with x appended unless it holds x already (Set.prototype.add).
AddNew(seq, x) == IF \E i \in 1..Len(seq) : seq[i] = x THEN seq ELSE Append(seq, x)

RECURSIVE AddAllNew(_, _)
AddAllNew(seq, xs) ==
  IF xs = <<>> THEN seq ELSE AddAllNew(AddNew(seq, Head(xs)), Tail(xs))

\* The Set of types mergeSchemas collects, in insertion order.
RECURSIVE CollectTypes(_, _)
CollectTypes(types, schemas) ==
  IF schemas = <<>> THEN types
  ELSE CollectTypes(AddAllNew(types, Head(schemas).type), Tail(schemas))

\* The entries of schema.properties, none when it is undefined.
PropertiesOf(schema) == IF schema.properties = <<>> THEN <<>> ELSE schema.properties[1]

\* The keys of the entries, in order.
EntryKeys(entries) == [i \in 1..Len(entries) |-> entries[i].key]

\* The keys of allProperties, in insertion order.
RECURSIVE CollectKeys(_, _)
CollectKeys(keys, schemas) ==
  IF schemas = <<>> THEN keys
  ELSE CollectKeys(AddAllNew(keys, EntryKeys(PropertiesOf(Head(schemas)))), Tail(schemas))

\* allProperties[key]: the schemas of the property in the schemas that
\* declare it, in order.
RECURSIVE PropertySchemas(_, _)
PropertySchemas(schemas, key) ==
  IF schemas = <<>> THEN <<>>
  ELSE LET entries == PropertiesOf(Head(schemas))
           here == {i \in 1..Len(entries) : entries[i].key = key}
       IN  (IF here = {} THEN <<>> ELSE <<entries[CHOOSE i \in here : TRUE].value>>)
             \o PropertySchemas(Tail(schemas), key)

\* allRequired, in insertion order.
RECURSIVE CollectRequired(_, _)
CollectRequired(required, schemas) ==
  IF schemas = <<>> THEN required
  ELSE CollectRequired(
         AddAllNew(required, IF Head(schemas).required = <<>> THEN <<>>
                             ELSE Head(schemas).required[1]),
         Tail(schemas))

\* The items of the schemas that have items.
RECURSIVE CollectItems(_)
CollectItems(schemas) ==
  IF schemas = <<>> THEN <<>>
  ELSE Head(schemas).items \o CollectItems(Tail(schemas))

\* The node for mixed types that keeps the first schema only.
MixedTypesFirstOnly(schemas) == [EmptySchema EXCEPT !.oneOf = <<<<schemas[1]>>>>]

\* { oneOf: schemas }
MixedTypes(schemas) == [EmptySchema EXCEPT !.oneOf = <<schemas>>]

RECURSIVE mergeSchemas(_)
RECURSIVE mergeObjectSchemas(_)
RECURSIVE mergeArraySchemas(_)
mergeSchemas(schemas) ==
  IF Len(schemas) = 0 THEN EmptySchema
  ELSE IF Len(schemas) = 1 THEN schemas[1]
  ELSE LET types == CollectTypes(<<>>, schemas)
       IN  IF Len(types) = 1
             THEN (IF types[1] = "object" THEN mergeObjectSchemas(schemas)
                   ELSE IF types[1] = "array" THEN mergeArraySchemas(schemas)
                   ELSE schemas[1])
             ELSE MixedTypes(schemas)

mergeObjectSchemas(schemas) ==
  LET keys == CollectKeys(<<>>, schemas)
      allRequired == CollectRequired(<<>>, schemas)
  IN  [EmptySchema EXCEPT
         !.type = <<"object">>,
         !.properties = <<[i \in 1..Len(keys) |->
                             [key |-> keys[i],
                              value |-> mergeSchemas(PropertySchemas(schemas, keys[i]))]]>>,
         !.required = IF Len(allRequired) > 0 THEN <<allRequired>> ELSE <<>>,
         !.additionalProperties = <<TRUE>>]

mergeArraySchemas(schemas) ==
  LET itemSchemas == CollectItems(schemas)
  IN  [EmptySchema EXCEPT
         !.type = <<"array">>,
         !.items = IF Len(itemSchemas) > 0 THEN <<mergeSchemas(itemSchemas)>>
                   ELSE <<EmptySchema>>]

RECURSIVE inferSchema(_)
RECURSIVE inferArraySchema(_)
RECURSIVE inferObjectSchema(_)
\* data is a decoded JSON value, or [t |-> "undefined"].
inferSchema(data) ==
  IF data.t = "null" THEN TypedSchema("null")
  ELSE IF data.t = "undefined" THEN EmptySchema
  ELSE IF data.t = "boolean" THEN TypedSchema("boolean")
  ELSE IF data.t = "number" THEN TypedSchema("integer")
  ELSE IF data.t = "real" THEN TypedSchema("number")
  ELSE IF data.t = "string" THEN inferStringSchema(data.v)
  ELSE IF data.t = "array" THEN inferArraySchema(data.v)
  ELSE inferObjectSchema(data.v)

inferArraySchema(data) ==
  IF Len(data) = 0 THEN [EmptySchema EXCEPT !.type = <<"array">>, !.items = <<EmptySchema>>]
  ELSE [EmptySchema EXCEPT
          !.type = <<"array">>,
          !.items = <<mergeSchemas([i \in 1..Len(data) |-> inferSchema(data[i])])>>]

inferObjectSchema(data) ==
  LET required == EntryKeys(SelectSeq(data, LAMBDA e : e.value.t \notin {"null", "undefined"}))
  IN  [EmptySchema EXCEPT
         !.type = <<"object">>,
         !.properties =
            <<[i \in 1..Len(data) |->
                 [key |-> data[i].key,
                  value |-> IF data[i].value.t = "null"
                              THEN [inferSchema(data[i].value) EXCEPT !.nullable = <<TRUE>>]
                              ELSE inferSchema(data[i].value)]]>>,
         !.required = IF Len(required) > 0 THEN <<required>> ELSE <<>>,
         !.additionalProperties = <<TRUE>>]

JUndefined == [t |-> "undefined", v |-> <<>>]

\* The names a plain object ({}) answers with an inherited member of
\* Object.prototype: allProperties[key] is then truthy before any
\* assignment, and is no array.
ObjectPrototypeKeys ==
  {<<"c","o","n","s","t","r","u","c","t","o","r">>,
   <<"t","o","S","t","r","i","n","g">>,
   <<"t","o","L","o","c","a","l","e","S","t","r","i","n","g">>,
   <<"v","a","l","u","e","O","f">>,
   <<"h","a","s","O","w","n","P","r","o","p","e","r","t","y">>,
   <<"i","s","P","r","o","t","o","t","y","p","e","O","f">>,
   <<"p","r","o","p","e","r","t","y","I","s","E","n","u","m","e","r","a","b","l","e">>,
   <<"_","_","p","r","o","t","o","_","_">>,
   <<"_","_","d","e","f","i","n","e","G","e","t","t","e","r","_","_">>,
   <<"_","_","d","e","f","i","n","e","S","e","t","t","e","r","_","_">>,
   <<"_","_","l","o","o","k","u","p","G","e","t","t","e","r","_","_">>,
   <<"_","_","l","o","o","k","u","p","S","e","t","t","e","r","_","_">>}

\* The calls of mergeSchemas that raise a TypeError instead of returning:
\* mergeObjectSchemas calls push on allProperties[key] when the name is an
\* inherited member, before it merges any property.
RECURSIVE mergeSchemasThrows(_)
RECURSIVE mergeObjectSchemasThrows(_)
mergeSchemasThrows(schemas) ==
  IF Len(schemas) <= 1 THEN FALSE
  ELSE LET types == CollectTypes(<<>>, schemas)
       IN  IF Len(types) # 1 THEN FALSE
           ELSE IF types[1] = "object" THEN mergeObjectSchemasThrows(schemas)
           ELSE IF types[1] = "array"
             THEN mergeSchemasThrows(CollectItems(schemas))
           ELSE FALSE

mergeObjectSchemasThrows(schemas) ==
  LET keys == CollectKeys(<<>>, schemas)
  IN  \/ \E i \in 1..Len(keys) : keys[i] \in ObjectPrototypeKeys
      \/ \E i \in 1..Len(keys) : mergeSchemasThrows(PropertySchemas(schemas, keys[i]))

\* The calls of inferSchema that raise, through inferArraySchema's merge.
RECURSIVE inferSchemaThrows(_)
inferSchemaThrows(data) ==
  IF data.t = "array"
    THEN \/ \E i \in 1..Len(data.v) : inferSchemaThrows(data.v[i])
         \/ mergeSchemasThrows([i \in 1..Len(data.v) |-> inferSchema(data.v[i])])
  ELSE IF data.t = "object"
    THEN \E i \in 1..Len(data.v) : inferSchemaThrows(data.v[i].value)
  ELSE FALSE

(***************************************************************************)
(* src/har/parser.ts                                                       *)
(*                                                                         *)
(* A parsed file is a decoded JSON value, as JSON.parse returns it.        *)
(***************************************************************************)
\* The property names of the HAR format the program reads.
FieldLog == <<"l","o","g">>
FieldEntries == <<"e","n","t","r","i","e","s">>
FieldRequest == <<"r","e","q","u","e","s","t">>
FieldResponse == <<"r","e","s","p","o","n","s","e">>
FieldUrl == <<"u","r","l">>
FieldMethod == <<"m","e","t","h","o","d">>
FieldStatus == <<"s","t","a","t","u","s">>
FieldContent == <<"c","o","n","t","e","n","t">>
FieldSize == <<"s","i","z","e">>
FieldMimeType == <<"m","i","m","e","T","y","p","e">>
FieldText == <<"t","e","x","t">>
FieldHeaders == <<"h","e","a","d","e","r","s">>
FieldQueryString == <<"q","u","e","r","y","S","t","r","i","n","g">>
FieldName == <<"n","a","m","e">>
FieldValue == <<"v","a","l","u","e">>

\* value[key]: the property of an object; undefined on a value that has no
\* such property (an array, a string, a number and a boolean have none of
\* the names above).
Prop(value, key) ==
  IF value.t = "object" /\ \E i \in 1..Len(value.v) : value.v[i].key = key
    THEN value.v[CHOOSE i \in 1..Len(value.v) : value.v[i].key = key].value
    ELSE JUndefined

\* typeof value
TypeOf(value) ==
  IF value.t \in {"null", "array", "object"} THEN "object"
  ELSE IF value.t \in {"number", "real"} THEN "number"
  ELSE value.t

\* !value is false.
Truthy(value) ==
  /\ value.t \notin {"undefined", "null"}
  /\ value.t = "boolean" => value.v
  /\ value.t = "number" => value.v # 0
  /\ value.t = "string" => value.v # <<>>

\* The body of validateHarStructure's loop over log.entries: the message of
\* the error it throws for the entry, or <<>>.
EntryError(entry) ==
  IF TypeOf(entry) # "object" \/ entry.t = "null"
    THEN <<"HAR entry must be an object">>
  ELSE IF ~Truthy(Prop(entry, FieldRequest)) \/ TypeOf(Prop(entry, FieldRequest)) # "object"
    THEN <<"HAR entry must have a \"request\" object">>
  ELSE IF ~Truthy(Prop(entry, FieldResponse)) \/ TypeOf(Prop(entry, FieldResponse)) # "object"
    THEN <<"HAR entry must have a \"response\" object">>
  ELSE IF TypeOf(Prop(Prop(entry, FieldRequest), FieldUrl)) # "string"
    THEN <<"HAR request must have a \"url\" string">>
  ELSE IF TypeOf(Prop(Prop(entry, FieldRequest), FieldMethod)) # "string"
    THEN <<"HAR request must have a \"method\" string">>
  ELSE <<>>

\* validateHarStructure: the message of the error it throws, or <<>> when it
\* returns.
validateHarStructure(har) ==
  IF TypeOf(har) # "object" \/ har.t = "null"
    THEN <<"HAR file must be a JSON object">>
  ELSE IF ~Truthy(Prop(har, FieldLog)) \/ TypeOf(Prop(har, FieldLog)) # "object"
    THEN <<"HAR file must have a \"log\" property">>
  ELSE IF Prop(Prop(har, FieldLog), FieldEntries).t # "array"
    THEN <<"HAR log must have an \"entries\" array">>
  ELSE LET entries == Prop(Prop(har, FieldLog), FieldEntries).v
           bad == {i \in 1..Len(entries) : EntryError(entries[i]) # <<>>}
       IN  IF bad = {} THEN <<>>
           ELSE EntryError(entries[CHOOSE i \in bad : \A j \in bad : i <= j])

\* The text of a file that JSON.parse rejects.
NotJson == [t |-> "invalid", v |-> <<>>]

\* parseHarFile: the message of the error it throws, or <<>> when it returns
\* the parsed file.
parseHarFile(content) ==
  IF content = NotJson THEN <<"Unexpected token">>
  ELSE validateHarStructure(content)

\* `Failed to parse HAR file "${file}": ${message}`
ParseFailure(file, message) ==
  <<"Failed to parse HAR file \"", file, "\": ", message>>

\* parseMultipleHarFiles over the files glob found, each [path, content]:
\* the error it throws (or <<>>), the results it returns and the number of
\* files parseHarFile was called on. The loop stops at the first file that
\* parseHarFile rejects.
parseMultipleHarFiles(files) ==
  IF Len(files) = 0
    THEN [error |-> <<"No HAR files found matching patterns">>,
          results |-> <<>>, read |-> 0]
  ELSE LET bad == {i \in 1..Len(files) : parseHarFile(files[i].content) # <<>>}
       IN  IF bad = {}
             THEN [error |-> <<>>,
                   results |-> [i \in 1..Len(files) |->
                                  [path |-> files[i].path, har |-> files[i].content]],
                   read |-> Len(files)]
             ELSE LET k == CHOOSE i \in bad : \A j \in bad : i <= j
                  IN  [error |-> ParseFailure(files[k].path,
                                              parseHarFile(files[k].content)[1]),
                       results |-> <<>>, read |-> k]

(***************************************************************************)
(* The parsed file read through the HarFile type (parser.ts casts the      *)
(* JSON value, it does not convert it). An optional part is <<x>> when the *)
(* value has the property and <<>> when it is undefined.                   *)
(***************************************************************************)
\* The property as an optional part, its value read by `read`.
Optional(value, key, read(_)) ==
  IF Prop(value, key).t = "undefined" THEN <<>> ELSE <<read(Prop(value, key))>>

\* A string or a number as it is.
Plain(value) == value.v

\* A header or a query parameter: [name, value].
NameValueOf(value) ==
  [name |-> Prop(value, FieldName).v, value |-> Prop(value, FieldValue).v]

\* A list of headers or of query parameters.
NameValuesOf(value) == [i \in 1..Len(value.v) |-> NameValueOf(value.v[i])]

\* response.content (and request.postData): [size, mimeType, text].
ContentOf(value) ==
  [size |-> Optional(value, FieldSize, Plain),
   mimeType |-> Optional(value, FieldMimeType, Plain),
   text |-> Optional(value, FieldText, Plain)]

\* An entry that validateHarStructure accepted: request.url and
\* request.method are strings, everything else may be missing.
EntryOf(value) ==
  LET request == Prop(value, FieldRequest)
      response == Prop(value, FieldResponse)
  IN  [request |-> [method |-> Prop(request, FieldMethod).v,
                    url |-> Prop(request, FieldUrl).v,
                    headers |-> Optional(request, FieldHeaders, NameValuesOf),
                    queryString |-> Optional(request, FieldQueryString, NameValuesOf)],
       response |-> [status |-> Optional(response, FieldStatus, Plain),
                     headers |-> Optional(response, FieldHeaders, NameValuesOf),
                     content |-> Optional(response, FieldContent, ContentOf)]]

\* The entries of a file that validateHarStructure accepted.
HarEntriesOf(har) ==
  LET entries == Prop(Prop(har, FieldLog), FieldEntries).v
  IN  [i \in 1..Len(entries) |-> EntryOf(entries[i])]

(***************************************************************************)
(* src/har/filter.ts: the standard filters                                 *)
(***************************************************************************)
\* /^https:\/\/app\.ourskylight\.com\/api\//
SKYLIGHT_API_PATTERN == <<"h","t","t","p","s",":","/","/","a","p","p",".","o","u","r","s","k","y","l","i","g","h","t",".","c","o","m","/","a","p","i","/">>

MethodOptions == <<"O","P","T","I","O","N","S">>

\* filterSkylightRequests: pattern.test(entry.request.url)
IsSkylightRequest(entry) == HasAt(entry.request.url, 1, SKYLIGHT_API_PATTERN)

\* filterOutPreflight
IsNotPreflight(entry) == toUpperCase(entry.request.method) # MethodOptions

\* filterSuccessfulResponses: an undefined status compares false.
IsSuccessfulResponse(entry) ==
  /\ entry.response.status # <<>>
  /\ \/ (entry.response.status[1] >= 200 /\ entry.response.status[1] < 300)
     \/ entry.response.status[1] = 304

\* applyStandardFilters, on the entries of the file.
applyStandardFilters(entries) ==
  SelectSeq(SelectSeq(SelectSeq(entries, IsSkylightRequest), IsNotPreflight),
            IsSuccessfulResponse)

(***************************************************************************)
(* The entries of accepted files in mergeHarFiles and redactHarFile: the   *)
(* reads of a part that may be missing.                                    *)
(***************************************************************************)
\* The entry as mergeHarFiles reads it, the whole entry carried along.
\* existing.response.content.size of a missing content is read only where
\* DedupRaises says it is not.
MergerEntry(entry) ==
  [method |-> entry.request.method,
   url |-> entry.request.url,
   status |-> entry.response.status[1],
   size |-> IF entry.response.content = <<>> THEN <<>>
            ELSE entry.response.content[1].size,
   whole |-> entry]

\* deduplicateEntries raises a TypeError: an entry meets an earlier entry
\* of its key and either has no response.content, whose size is read.
RECURSIVE DedupRaises(_, _)
DedupRaises(entryMap, entries) ==
  IF entries = <<>> THEN FALSE
  ELSE LET i == MapIndex(entryMap, getEntryKey(Head(entries)))
       IN  \/ /\ i # 0
              /\ \/ entryMap[i].value.whole.response.content = <<>>
                 \/ Head(entries).whole.response.content = <<>>
           \/ DedupRaises(DedupStep(entryMap, Head(entries)), Tail(entries))

\* mergeHarFiles raises: no file, or the deduplication of several files
\* raises. files are the filtered files, each the list of its entries.
mergeHarFilesRaises(files) ==
  \/ Len(files) = 0
  \/ /\ Len(files) > 1
     /\ DedupRaises(<<>>, [i \in 1..Len(flatMapEntries(files)) |->
                             MergerEntry(flatMapEntries(files)[i])])

\* redactEntry raises a TypeError: headers.map or queryString.map of a
\* missing list, content.text of a missing content, or
\* content.mimeType.includes of a missing media type.
redactEntryRaises(entry) ==
  \/ entry.request.headers = <<>>
  \/ entry.request.queryString = <<>>
  \/ entry.response.headers = <<>>
  \/ entry.response.content = <<>>
  \/ /\ entry.response.content # <<>>
     /\ entry.response.content[1].text \notin {<<>>, << <<>> >>}
     /\ entry.response.content[1].mimeType = <<>>

\* The entry as redactEntry reads it when it does not raise.
RedactionEntry(entry) ==
  [request |-> [method |-> entry.request.method,
                url |-> entry.request.url,
                headers |-> entry.request.headers[1],
                cookies |-> <<>>,
                queryString |-> entry.request.queryString[1],
                postData |-> <<>>],
   response |-> [status |-> entry.response.status,
                 headers |-> entry.response.headers[1],
                 cookies |-> <<>>,
                 content |-> [size |-> entry.response.content[1].size,
                              mimeType |-> IF entry.response.content[1].mimeType = <<>>
                                             THEN <<>>
                                             ELSE entry.response.content[1].mimeType[1],
                              text |-> entry.response.content[1].text]]]

(***************************************************************************)
(* The convert command (cli): the steps of its action                      *)
(***************************************************************************)
\* The steps in the order of the action's statements.
StepOrder == <<"parse", "filter", "merge", "redact", "convert", "build", "write", "docs">>

\* filteredHars.reduce((sum, har) => sum + har.log.entries.length, 0)
RECURSIVE TotalEntries(_)
TotalEntries(filteredHars) ==
  IF filteredHars = <<>> THEN 0
  ELSE Len(Head(filteredHars).entries) + TotalEntries(Tail(filteredHars))

\* The statement after step 2 that goes on to the merge whatever was found.
AlwaysMerge(totalEntries) == "merge"

\* The statement after step 2: if (totalEntries === 0) { ...; return; }
AfterFilter(totalEntries) == IF totalEntries = 0 THEN "returned" ELSE "merge"

\* mergeHarFiles(filteredHars).log.entries, when it does not raise.
MergedEntries(filteredHars) ==
  LET files == [i \in 1..Len(filteredHars) |->
                  [entries |-> [j \in 1..Len(filteredHars[i].entries) |->
                                  MergerEntry(filteredHars[i].entries[j])]]]
      entries == mergeHarFiles(files).har[1].entries
  IN  [i \in 1..Len(entries) |-> entries[i].whole]

\* redactHarFile(mergedHar).log.entries, when it does not raise.
RedactedEntries(entries) ==
  [i \in 1..Len(entries) |-> redactEntry(RedactionEntry(entries[i]))]

(***************************************************************************)
(* The inputs of mergeHarFiles. An entry carries the fields the merger     *)
(* reads: request.method, request.url, response.status and                 *)
(* response.content.size (<<>> when the capture declares none).            *)
(***************************************************************************)
MethodGET == <<"G","E","T">>
MethodGetLower == <<"g","e","t">>
MethodPOST == <<"P","O","S","T">>
MethodFOO == <<"F","O","O">>
MethodBAR == <<"B","A","R">>

UrlA1 == Https \o <<"x","/","a","?","b","=","1">>
UrlA2 == Https \o <<"x","/","a","?","b","=","2">>
UrlB == Https \o <<"x","/","b">>
UrlRaw1 == <<"/","a","?","b","=","1">>
UrlRaw2 == <<"/","a","?","b","=","2">>

EntriesOf(methodSet, urlSet, statusSet, sizeSet) ==
  [method : methodSet, url : urlSet, status : statusSet, size : sizeSet]

\* Each family varies the fields its name says and fixes the others.
\* Entries that differ in the query string or are unparsable.
KeyFamily == EntriesOf({MethodGET}, {UrlA1, UrlA2, UrlRaw1, UrlRaw2}, {200}, {<<7>>})

\* Entries of one key that differ in declared size.
SizeFamily == EntriesOf({MethodGET}, {UrlA1, UrlA2}, {200}, {<<>>, <<0>>, <<7>>})

\* Entries of one URL that differ in method.
MethodFamily ==
  EntriesOf({MethodGET, MethodGetLower, MethodPOST, MethodFOO, MethodBAR},
            {UrlA1}, {200}, {<<7>>})

\* Entries of one URL that differ in status.
StatusFamily == EntriesOf({MethodGET, MethodFOO}, {UrlA1}, {200, 404}, {<<7>>})

\* Entries that differ in URL and method.
OrderFamily == EntriesOf({MethodGetLower, MethodPOST, MethodFOO}, {UrlA2, UrlB}, {200}, {<<7>>})

EntryFamilies == {KeyFamily, SizeFamily, MethodFamily, StatusFamily, OrderFamily}

InputCreator == "WebInspector"

\* Every way to cut the sequence flat into k consecutive files.
RECURSIVE Splits(_, _)
Splits(flat, k) ==
  IF k = 0 THEN (IF flat = <<>> THEN {<<>>} ELSE {})
  ELSE UNION { { <<[creator |-> InputCreator, entries |-> SubSeq(flat, 1, i)]>> \o rest :
                   rest \in Splits(SubSeq(flat, i + 1, Len(flat)), k - 1) } :
               i \in (IF k = 1 THEN {Len(flat)} ELSE 0..Len(flat)) }

NotRun == [kind |-> "none", har |-> <<>>]

MergeInit ==
  /\ \E family \in EntryFamilies, n \in 0..MaxEntries, k \in 0..MaxFiles :
       \E flat \in [1..n -> family] : harFiles \in Splits(flat, k)
  /\ merged = NotRun
  /\ paths = <<>>
  /\ normalized = <<>>
  /\ input = <<>>
  /\ output = <<>>
  /\ pc = "start"

\* The convert command's call of mergeHarFiles (cli.ts).
MergeHarFiles ==
  /\ pc = "start"
  /\ merged' = mergeHarFiles(harFiles)
  /\ pc' = "done"
  /\ UNCHANGED <<harFiles, paths, normalized, input, output>>

MergeNext == MergeHarFiles

SpecMerge == MergeInit /\ [][MergeNext]_vars

(***************************************************************************)
(* The inputs of normalizeOpenApiPaths.                                    *)
(***************************************************************************)
ParamFrameId == <<"f","r","a","m","e","I","d">>
ParamLimit == <<"l","i","m","i","t">>

NoOperations == [key \in OperationKeys |-> <<>>]

\* The operation of a path under a key declares the given parameters; its
\* operationId names the path and the key it came from.
Operation(path, key, parameters) ==
  <<[operationId |-> <<path, key>>, parameters |-> parameters]>>

DeclaredFrameId == <<PathParameter(ParamFrameId)>>

DeclaredLimit == <<[name |-> ParamLimit, in |-> "query", required |-> FALSE, type |-> "string"]>>

ItemShapes == {"undefined", "get", "post", "get+post", "trace", "get(frameId)"}

\* The value of a path in the input PathsObject, by shape.
InputItem(path, shape) ==
  IF shape = "undefined" THEN <<>>
  ELSE IF shape = "get"
    THEN <<[NoOperations EXCEPT !["get"] = Operation(path, "get", <<>>)]>>
  ELSE IF shape = "post"
    THEN <<[NoOperations EXCEPT !["post"] = Operation(path, "post", <<>>)]>>
  ELSE IF shape = "get+post"
    THEN <<[NoOperations EXCEPT !["get"] = Operation(path, "get", <<>>),
                                !["post"] = Operation(path, "post", DeclaredLimit)]>>
  ELSE IF shape = "trace"
    THEN <<[NoOperations EXCEPT !["trace"] = Operation(path, "trace", <<>>)]>>
  ELSE <<[NoOperations EXCEPT !["get"] = Operation(path, "get", DeclaredFrameId)]>>

NormInit ==
  /\ \E n \in 0..MaxPaths :
       \E ps \in [1..n -> InputPaths], shapes \in [1..n -> ItemShapes] :
         /\ \A i, j \in 1..n : ps[i] = ps[j] => i = j
         /\ paths = [i \in 1..n |-> [path |-> ps[i], item |-> InputItem(ps[i], shapes[i])]]
  /\ normalized = <<>>
  /\ harFiles = <<>>
  /\ merged = NotRun
  /\ input = <<>>
  /\ output = <<>>
  /\ pc = "start"

\* convertHarToOpenApi's call of normalizeOpenApiPaths (converter/index.ts).
NormalizeOpenApiPaths ==
  /\ pc = "start"
  /\ normalized' = normalizeOpenApiPaths(paths)
  /\ pc' = "done"
  /\ UNCHANGED <<harFiles, merged, paths, input, output>>

NormNext == NormalizeOpenApiPaths

SpecNorm == NormInit /\ [][NormNext]_vars

(***************************************************************************)
(* The inputs of normalizePath: paths of up to MaxSegments segments, and   *)
(* the documented frames/chores path.                                      *)
(***************************************************************************)
MaxSegments == 3

SegApi == <<"a","p","i">>
SegFrames == <<"f","r","a","m","e","s">>
SegChores == <<"c","h","o","r","e","s">>
SegLists == <<"l","i","s","t","s">>
SegUuid1 ==
  <<"3","f","a","8","5","f","6","4","-","5","7","1","7","-","4","5","6","2","-",
    "b","3","f","c","-","2","c","9","6","3","f","6","6","a","f","a","6">>
SegUuid2 ==
  <<"1","2","3","e","4","5","6","7","-","e","8","9","b","-","1","2","d","3","-",
    "a","4","5","6","-","4","2","6","6","1","4","1","7","4","0","0","0">>
SegDigits5 == <<"1","2","3","4","5">>
SegDigits4 == <<"1","2","3","4">>
SegActive == <<"a","c","t","i","v","e">>
SegFrameIdParam == <<"{","f","r","a","m","e","I","d","}">>

InputSegments ==
  {SegApi, SegFrames, SegChores, SegLists, SegUuid1, SegDigits5, SegDigits4,
   SegActive, SegFrameIdParam}

\* "/" + segments.join("/")
RECURSIVE JoinPath(_)
JoinPath(segments) ==
  IF segments = <<>> THEN <<>>
  ELSE <<"/">> \o Head(segments) \o JoinPath(Tail(segments))

DocumentedPath == JoinPath(<<SegApi, SegFrames, SegUuid1, SegChores, SegUuid2>>)

PathInit ==
  /\ input \in {JoinPath(segments) :
                   segments \in UNION {[1..n -> InputSegments] : n \in 1..MaxSegments}}
                \cup {DocumentedPath}
  /\ output = <<>>
  /\ harFiles = <<>>
  /\ merged = NotRun
  /\ paths = <<>>
  /\ normalized = <<>>
  /\ pc = "start"

\* normalizeOpenApiPaths' call of normalizePath on one path.
NormalizePath ==
  /\ pc = "start"
  /\ output' = normalizePath(input)
  /\ pc' = "done"
  /\ UNCHANGED <<harFiles, merged, paths, normalized, input>>

PathNext == NormalizePath

SpecPath == PathInit /\ [][PathNext]_vars


(***************************************************************************)
(* The inputs of redactBody: decoded JSON values.                          *)
(***************************************************************************)
MaxItems == 2
MaxFields == 2

StrPlain == <<"h","i">>
StrEmail == <<"a","@","b",".","c","o">>

KeyEmail == <<"e","m","a","i","l">>
KeyToken == <<"T","o","k","e","n">>
KeyAvatarUrl == <<"a","v","a","t","a","r","_","u","r","l">>
KeyPassword == <<"p","a","s","s","w","o","r","d">>
KeyId == <<"i","d">>
KeyName == <<"n","a","m","e">>

FieldNames == {KeyEmail, KeyToken, KeyAvatarUrl, KeyPassword, KeyId, KeyName}

JsonLeaves ==
  {JNull, JBool(TRUE), JNum(7), JStr(StrPlain), JStr(StrEmail), JStr(SegUuid1)}

\* The arrays of up to MaxItems of the values.
ArraysOf(values) ==
  {JArr(items) : items \in UNION {[1..n -> values] : n \in 0..MaxItems}}

\* The objects of up to MaxFields fields, of distinct names, of the values.
ObjectsOf(names, values) ==
  {JObj([i \in 1..Len(kv[1]) |-> [key |-> kv[1][i], value |-> kv[2][i]]]) :
     kv \in UNION {
       {keys \in [1..n -> names] : \A i, j \in 1..n : keys[i] = keys[j] => i = j}
         \X [1..n -> values] : n \in 0..MaxFields}}

FlatJsonValues ==
  JsonLeaves \cup ArraysOf(JsonLeaves) \cup ObjectsOf(FieldNames, JsonLeaves)

\* A container under a sensitive name, under a plain name, and in an array.
NestedJsonValues ==
  LET containers == FlatJsonValues \ JsonLeaves
  IN  {JObj(<<[key |-> k, value |-> c]>>) : k \in {KeyEmail, KeyName}, c \in containers}
        \cup {JArr(<<c>>) : c \in containers}

KeyAddress == <<"a","d","d","r","e","s","s">>
KeyCity == <<"c","i","t","y">>

\* A sensitive field inside the object or array value of another sensitive
\* field or of an ID field.
SensitiveNestedValues ==
  LET inner == JObj(<<[key |-> KeyCity, value |-> JStr(StrPlain)]>>)
  IN  {JObj(<<[key |-> k, value |-> c]>>) :
         k \in {KeyAddress, KeyId}, c \in {inner, JArr(<<inner>>)}}

JsonValues == FlatJsonValues \cup NestedJsonValues \cup SensitiveNestedValues

BodyInit ==
  /\ input \in JsonValues
  /\ output = <<>>
  /\ harFiles = <<>>
  /\ merged = NotRun
  /\ paths = <<>>
  /\ normalized = <<>>
  /\ pc = "start"

\* redactJsonContent's call of redactBody on the parsed body.
RedactBody ==
  /\ pc = "start"
  /\ output' = redactBody(input)
  /\ pc' = "done"
  /\ UNCHANGED <<harFiles, merged, paths, normalized, input>>

BodyNext == RedactBody

SpecBody == BodyInit /\ [][BodyNext]_vars

(***************************************************************************)
(* The inputs of redactHarFile: files of at most one entry. The entries of *)
(* UrlEntries vary the URL, the query parameters, the headers and the      *)
(* cookies; those of BodyEntries vary the request and response bodies.     *)
(***************************************************************************)
UrlFrameUuid == Https \o <<"x">> \o JoinPath(<<SegFrames, SegUuid1>>)
UrlQueryUuid == Https \o <<"x","/","a","?","i","d","=">> \o SegUuid1

HeaderAuthorization ==
  [name |-> <<"A","u","t","h","o","r","i","z","a","t","i","o","n">>, value |-> <<"B","e","a","r","e","r"," ","a","b","c">>]
HeaderAccept ==
  [name |-> <<"A","c","c","e","p","t">>, value |-> <<"*","/","*">>]

QueryParamUuid == [name |-> KeyId, value |-> SegUuid1]

CookieSession == [name |-> <<"s","i","d">>, value |-> <<"s","3","c","r","3","t">>]

MimeApplicationJson == <<"a","p","p","l","i","c","a","t","i","o","n","/","j","s","o","n">>
MimeJsonApi == <<"a","p","p","l","i","c","a","t","i","o","n","/","v","n","d",".","a","p","i","+","j","s","o","n">>
MimeUpperJson == <<"a","p","p","l","i","c","a","t","i","o","n","/","J","S","O","N">>
MimeHtml == <<"t","e","x","t","/","h","t","m","l">>

MimeTypes == {MimeApplicationJson, MimeJsonApi, MimeUpperJson, MimeHtml}

TextEmailObject == <<"{","\"","e","m","a","i","l","\"",":","\"","m","e","@","b",".","c","o","\"","}">>
TextSpacedObject == <<"{","\"","n","a","m","e","\"",":"," ","\"","m","e","@","b",".","c","o","\"","}">>
TextTruncated == <<"{","\"","e","m","a","i","l","\"",":","\"","m","e","@","b",".","c","o","\"">>
TextPlainEmail == <<"m","a","i","l"," ","m","e","@","b",".","c","o">>
TextArray == <<"[","1",",","\"","h","i","\"","]">>

\* The optional text of a body: undefined, empty, or one of the texts.
BodyTexts ==
  {<<>>, << <<>> >>, <<TextEmailObject>>, <<TextSpacedObject>>, <<TextTruncated>>,
   <<TextPlainEmail>>, <<TextArray>>}

FormParams ==
  {<<>>, << <<[name |-> KeyName, value |-> <<StrPlain>>],
              [name |-> KeyId, value |-> <<>>]>> >>}

Contents == [mimeType : MimeTypes, text : BodyTexts]

NoContent == [mimeType |-> MimeHtml, text |-> <<>>]

PostDatas ==
  {<<>>} \cup {<<p>> : p \in [mimeType : MimeTypes, text : BodyTexts, params : FormParams]}

UrlEntries ==
  [request : [url : {UrlFrameUuid, UrlQueryUuid, UrlB},
              headers : {<<>>, <<HeaderAuthorization, HeaderAccept>>},
              cookies : {<<>>, <<CookieSession>>},
              queryString : {<<>>, <<QueryParamUuid>>},
              postData : {<<>>}],
   response : [headers : {<<>>}, cookies : {<<>>, <<CookieSession>>},
               content : {NoContent}]]

BodyEntries ==
  [request : [url : {UrlB}, headers : {<<>>}, cookies : {<<>>},
              queryString : {<<>>}, postData : PostDatas],
   response : [headers : {<<>>}, cookies : {<<>>}, content : Contents]]

EntryInit ==
  /\ \E entries \in {<<>>} \cup {<<e>> : e \in UrlEntries \cup BodyEntries} :
       input = [creator |-> InputCreator, entries |-> entries]
  /\ output = <<>>
  /\ harFiles = <<>>
  /\ merged = NotRun
  /\ paths = <<>>
  /\ normalized = <<>>
  /\ pc = "start"

\* The convert command's call of redactHarFile (cli.ts).
RedactHarFile ==
  /\ pc = "start"
  /\ output' = redactHarFile(input)
  /\ pc' = "done"
  /\ UNCHANGED <<harFiles, merged, paths, normalized, input>>

EntryNext == RedactHarFile

SpecEntry == EntryInit /\ [][EntryNext]_vars

(***************************************************************************)
(* The inputs of redactHeaders: lists of up to MaxHeaders headers.         *)
(***************************************************************************)
MaxHeaders == 3

HeaderNames ==
  {<<"A","u","t","h","o","r","i","z","a","t","i","o","n">>,
   <<"c","o","o","k","i","e">>,
   <<"X","-","A","P","I","-","K","E","Y">>,
   <<"x","-","a","p","i","-","k","e","y","s">>,
   <<"A","c","c","e","p","t">>}

HeaderValues == {<<"v","1">>, REDACTION_PLACEHOLDERS.token}

InputHeaders == [name : HeaderNames, value : HeaderValues]

HeadersInit ==
  /\ input \in UNION {[1..n -> InputHeaders] : n \in 0..MaxHeaders}
  /\ output = <<>>
  /\ harFiles = <<>>
  /\ merged = NotRun
  /\ paths = <<>>
  /\ normalized = <<>>
  /\ pc = "start"

\* redactEntry's call of redactHeaders on the headers of a message.
RedactHeaders ==
  /\ pc = "start"
  /\ output' = redactHeaders(input)
  /\ pc' = "done"
  /\ UNCHANGED <<harFiles, merged, paths, normalized, input>>

HeadersNext == RedactHeaders

SpecHeaders == HeadersInit /\ [][HeadersNext]_vars

(***************************************************************************)
(* The inputs of redactQueryString: lists of up to MaxParams parameters.   *)
(***************************************************************************)
MaxParams == 2

StrJwt == <<"e","y","J","a",".","b",".","c">>

\* A value that holds a UUID and is an email address, and one that holds a
\* JWT and is an email address.
StrUuidEmail == SegUuid1 \o <<"@","b",".","c","o">>
StrJwtEmail == StrJwt \o <<"@","b",".","c","o">>

QueryValues == {StrPlain, SegUuid1, StrEmail, StrJwt, StrUuidEmail, StrJwtEmail}

QueryParams == [name : {KeyId, KeyEmail}, value : QueryValues]

QueryInit ==
  /\ input \in UNION {[1..n -> QueryParams] : n \in 0..MaxParams}
  /\ output = <<>>
  /\ harFiles = <<>>
  /\ merged = NotRun
  /\ paths = <<>>
  /\ normalized = <<>>
  /\ pc = "start"

\* redactEntry's call of redactQueryString on the request's parameters.
RedactQueryString ==
  /\ pc = "start"
  /\ output' = redactQueryString(input)
  /\ pc' = "done"
  /\ UNCHANGED <<harFiles, merged, paths, normalized, input>>

QueryNext == RedactQueryString

SpecQuery == QueryInit /\ [][QueryNext]_vars

(***************************************************************************)
(* The inputs of inferSchema (decoded JSON values) and of mergeSchemas     *)
(* (lists of up to MaxSchemas schemas).                                    *)
(***************************************************************************)
MaxSchemas == 3

StrDate == <<"2","0","2","4","-","0","3","-","1","5">>
StrDateTime == <<"2","0","2","4","-","0","3","-","1","5","T","1","0",":","0","0",":","0","0","Z">>
StrNotADate == <<"n","o","t","-","a","-","d","a","t","e","-","2","0","2","4">>
StrColor == <<"#","f","f","0","0","a","a">>
StrTime == <<"1","0",":","3","0">>

SchemaLeaves == {JNum(1), JStr(StrPlain), JBool(TRUE)}

\* Arrays, and arrays of arrays, of the leaves.
SampleArrays == ArraysOf(SchemaLeaves \cup ArraysOf(SchemaLeaves))

SampleScalars ==
  {JNull, JUndefined, JReal(15)}
    \cup {JStr(v) : v \in {StrDate, StrDateTime, StrNotADate, StrColor, StrTime,
                           StrEmail, SegUuid1, UrlB}}

SampleObjects == ObjectsOf({KeyId, KeyName}, {JNum(1), JNull, JStr(StrPlain)})

KeyConstructor == <<"c","o","n","s","t","r","u","c","t","o","r">>

\* Several samples of one response: arrays of objects whose fields are
\* present or absent, null or not.
SampleObjectArrays ==
  ArraysOf(ObjectsOf({KeyName, KeyConstructor}, {JNull, JStr(StrPlain)}))

Samples ==
  SchemaLeaves \cup SampleScalars \cup SampleArrays \cup SampleObjects
    \cup SampleObjectArrays

NodeString == TypedSchema("string")
NodeInteger == TypedSchema("integer")
NodeBoolean == TypedSchema("boolean")
NodeStringOrNull == [EmptySchema EXCEPT !.type = <<"string", "null">>]
NodeObjectId == inferSchema(JObj(<<[key |-> KeyId, value |-> JNum(1)]>>))
NodeObjectName == inferSchema(JObj(<<[key |-> KeyName, value |-> JStr(StrPlain)]>>))
NodeObjectNullName == inferSchema(JObj(<<[key |-> KeyName, value |-> JNull]>>))
NodeObjectConstructor ==
  inferSchema(JObj(<<[key |-> KeyConstructor, value |-> JStr(StrPlain)]>>))
NodeArray == inferSchema(JArr(<<JNum(1)>>))
NodeUnion == MixedTypes(<<NodeInteger, NodeString>>)

SchemaNodes ==
  {NodeString, NodeInteger, NodeBoolean, NodeStringOrNull, NodeObjectId,
   NodeObjectName, NodeObjectNullName, NodeObjectConstructor, NodeArray,
   NodeUnion, EmptySchema}

SchemaInit ==
  /\ \/ \E data \in Samples :
          input = [op |-> "infer", data |-> data, schemas |-> <<>>]
     \/ \E schemas \in UNION {[1..n -> SchemaNodes] : n \in 0..MaxSchemas} :
          input = [op |-> "merge", data |-> JUndefined, schemas |-> schemas]
  /\ output = <<>>
  /\ harFiles = <<>>
  /\ merged = NotRun
  /\ paths = <<>>
  /\ normalized = <<>>
  /\ pc = "start"

\* A call of inferSchema on an observed value.
InferSchema ==
  /\ pc = "start"
  /\ input.op = "infer"
  /\ IF inferSchemaThrows(input.data)
       THEN output' = <<>> /\ pc' = "threw"
       ELSE output' = inferSchema(input.data) /\ pc' = "done"
  /\ UNCHANGED <<harFiles, merged, paths, normalized, input>>

\* A call of mergeSchemas on independently inferred schemas.
MergeSchemas ==
  /\ pc = "start"
  /\ input.op = "merge"
  /\ IF mergeSchemasThrows(input.schemas)
       THEN output' = <<>> /\ pc' = "threw"
       ELSE output' = mergeSchemas(input.schemas) /\ pc' = "done"
  /\ UNCHANGED <<harFiles, merged, paths, normalized, input>>

SchemaNext == InferSchema \/ MergeSchemas

SpecSchema == SchemaInit /\ [][SchemaNext]_vars

(***************************************************************************)
(* The inputs of redactUrl: paths of up to MaxSegments segments, alone or  *)
(* after an origin, with or without a query.                               *)
(***************************************************************************)
SegAbc123 == <<"a","b","c","1","2","3">>

UrlSegments == {SegApi, SegFrames, SegChores, SegAbc123, SegUuid1}

UrlOrigins == {<<>>, Https \o <<"x">>}

UrlQueries ==
  {<<>>, <<"?","i","d","=">> \o SegUuid1, <<"?","b","=","1">>}

UrlInit ==
  /\ \E segments \in UNION {[1..n -> UrlSegments] : n \in 1..MaxSegments},
        origin \in UrlOrigins, query \in UrlQueries :
        input = [origin |-> origin, path |-> JoinPath(segments), query |-> query]
  /\ output = <<>>
  /\ harFiles = <<>>
  /\ merged = NotRun
  /\ paths = <<>>
  /\ normalized = <<>>
  /\ pc = "start"

\* A call of redactUrl on the URL.
RedactUrl ==
  /\ pc = "start"
  /\ output' = redactUrl(input.origin \o input.path \o input.query)
  /\ pc' = "done"
  /\ UNCHANGED <<harFiles, merged, paths, normalized, input>>

UrlNext == RedactUrl

SpecUrl == UrlInit /\ [][UrlNext]_vars

(***************************************************************************)
(* The inputs of the convert command: the files glob finds, each a path    *)
(* and the JSON value of its text, and the options --no-redact, --no-docs. *)
(***************************************************************************)
Field(key, value) == [key |-> key, value |-> value]

MethodGet == <<"G","E","T">>
MethodOptionsLower == <<"o","p","t","i","o","n","s">>
ApiUrl == SKYLIGHT_API_PATTERN \o <<"x">>
OtherUrl == Https \o <<"b",".","c","o","/","a","p","i","/","x">>

JHeader(name, value) == JObj(<<Field(FieldName, JStr(name)), Field(FieldValue, JStr(value))>>)

\* A request with its lists of headers and of query parameters.
FullRequest(url, method) ==
  JObj(<<Field(FieldMethod, JStr(method)), Field(FieldUrl, JStr(url)),
         Field(FieldHeaders, JArr(<<JHeader(HeaderAuthorization.name, HeaderAuthorization.value)>>)),
         Field(FieldQueryString, JArr(<<>>))>>)

\* A request of the two properties validateHarStructure asks for.
BareRequest(url, method) ==
  JObj(<<Field(FieldMethod, JStr(method)), Field(FieldUrl, JStr(url))>>)

\* A response with its headers and a JSON body of the size.
FullResponse(status, size) ==
  JObj(<<Field(FieldStatus, JNum(status)), Field(FieldHeaders, JArr(<<>>)),
         Field(FieldContent,
               JObj(<<Field(FieldSize, JNum(size)),
                      Field(FieldMimeType, JStr(MimeApplicationJson)),
                      Field(FieldText, JStr(TextEmailObject))>>))>>)

\* A response whose content has a text and no mimeType.
TextOnlyResponse(status) ==
  JObj(<<Field(FieldStatus, JNum(status)), Field(FieldHeaders, JArr(<<>>)),
         Field(FieldContent, JObj(<<Field(FieldText, JStr(StrPlain))>>))>>)

\* A response with a status and nothing else.
BareResponse(status) == JObj(<<Field(FieldStatus, JNum(status))>>)

JEntry(request, response) ==
  JObj(<<Field(FieldRequest, request), Field(FieldResponse, response)>>)

FullEntry(url, method, status, size) ==
  JEntry(FullRequest(url, method), FullResponse(status, size))

JHar(entries) == JObj(<<Field(FieldLog, JObj(<<Field(FieldEntries, JArr(entries))>>))>>)

\* Captures of well-formed entries.
HarFull == JHar(<<FullEntry(ApiUrl, MethodGet, 200, 2)>>)
HarLarger == JHar(<<FullEntry(ApiUrl, MethodGet, 200, 5)>>)
HarBareRequest == JHar(<<JEntry(BareRequest(ApiUrl, MethodGet), FullResponse(200, 2))>>)
HarBareResponse == JHar(<<JEntry(FullRequest(ApiUrl, MethodGet), BareResponse(200))>>)
HarTextOnly == JHar(<<JEntry(FullRequest(ApiUrl, MethodGet), TextOnlyResponse(200))>>)
HarEmpty == JHar(<<>>)
\* Entries that the standard filters drop: another host, a preflight, a
\* failure, a response without a status.
HarOffTopic ==
  JHar(<<FullEntry(OtherUrl, MethodGet, 200, 2),
         FullEntry(ApiUrl, MethodOptionsLower, 200, 2),
         FullEntry(ApiUrl, MethodGet, 404, 2),
         JEntry(FullRequest(ApiUrl, MethodGet), JObj(<<>>))>>)
HarMixed ==
  JHar(<<FullEntry(OtherUrl, MethodGet, 200, 2), FullEntry(ApiUrl, MethodGet, 304, 2)>>)

WellFormedCaptures ==
  {HarFull, HarLarger, HarBareRequest, HarBareResponse, HarTextOnly, HarEmpty,
   HarOffTopic, HarMixed}

\* Entries that are not what the HAR format asks for, one defect each.
MalformedEntries ==
  {JNull,
   JObj(<<Field(FieldResponse, BareResponse(200))>>),
   JEntry(JStr(StrPlain), BareResponse(200)),
   JEntry(JArr(<<>>), BareResponse(200)),
   JObj(<<Field(FieldRequest, BareRequest(ApiUrl, MethodGet))>>),
   JEntry(BareRequest(ApiUrl, MethodGet), JNull),
   JEntry(BareRequest(ApiUrl, MethodGet), JArr(<<>>)),
   JEntry(JObj(<<Field(FieldMethod, JStr(MethodGet))>>), BareResponse(200)),
   JEntry(JObj(<<Field(FieldMethod, JStr(MethodGet)), Field(FieldUrl, JNum(1))>>),
          BareResponse(200)),
   JEntry(JObj(<<Field(FieldUrl, JStr(ApiUrl))>>), BareResponse(200)),
   JEntry(JObj(<<Field(FieldUrl, JStr(ApiUrl)), Field(FieldMethod, JNum(1))>>),
          BareResponse(200))}

\* Captures that are not what the HAR format asks for: the defect at the
\* top, in the log, or in the entry after a well-formed one.
MalformedCaptures ==
  {NotJson, JNull, JObj(<<>>),
   JObj(<<Field(FieldLog, JNull)>>),
   JObj(<<Field(FieldLog, JArr(<<>>))>>),
   JObj(<<Field(FieldLog, JObj(<<>>))>>),
   JObj(<<Field(FieldLog, JObj(<<Field(FieldEntries, JObj(<<>>))>>))>>)}
    \cup {JHar(<<FullEntry(ApiUrl, MethodGet, 200, 2), entry>>) : entry \in MalformedEntries}

Captures == WellFormedCaptures \cup MalformedCaptures

FilePaths == <<"a.har", "b.har", "c.har", "d.har">>

\* The lists of at most n files, the i-th under the i-th path.
FileLists(n) ==
  UNION {{[i \in 1..k |-> [path |-> FilePaths[i], content |-> contents[i]]] :
            contents \in [1..k -> Captures]} : k \in 0..n}

ConvertOptions == [redact : BOOLEAN, docs : BOOLEAN]

ConvertInit ==
  /\ harFiles = <<>>
  /\ merged = <<>>
  /\ paths = <<>>
  /\ normalized = <<>>
  /\ input \in [files : FileLists(MaxFiles), options : ConvertOptions]
  /\ output = [steps |-> <<>>, read |-> 0, parsed |-> <<>>, filteredHars |-> <<>>,
               mergedHar |-> <<>>, processedHar |-> <<>>, written |-> <<>>,
               docs |-> FALSE, error |-> <<>>, raisedBy |-> "", exitCode |-> <<>>]
  /\ pc = "start"

\* The step raises: control goes to the catch clause.
Raise(step, message) ==
  /\ output' = [output EXCEPT !.steps = Append(@, step), !.error = message,
                              !.raisedBy = step]
  /\ pc' = "catch"

\* Step 1: parseMultipleHarFiles(harFiles).
ParseStep ==
  /\ pc = "start"
  /\ LET r == parseMultipleHarFiles(input.files)
     IN  IF r.error # <<>>
           THEN /\ output' = [output EXCEPT !.steps = Append(@, "parse"),
                                            !.read = r.read, !.error = r.error,
                                            !.raisedBy = "parse"]
                /\ pc' = "catch"
           ELSE /\ output' = [output EXCEPT !.steps = Append(@, "parse"),
                                            !.read = r.read, !.parsed = r.results]
                /\ pc' = "filter"
  /\ UNCHANGED <<harFiles, merged, paths, normalized, input>>

\* Step 2: applyStandardFilters on every file, then the return when nothing
\* is left.
FilterStep ==
  /\ pc = "filter"
  /\ LET filteredHars == [i \in 1..Len(output.parsed) |->
                           [entries |-> applyStandardFilters(HarEntriesOf(output.parsed[i].har))]]
     IN  /\ output' = [output EXCEPT !.steps = Append(@, "filter"),
                                     !.filteredHars = filteredHars,
                                     !.exitCode = IF AfterFilter(TotalEntries(filteredHars)) = "returned"
                                                    THEN <<0>> ELSE @]
         /\ pc' = AfterFilter(TotalEntries(filteredHars))
  /\ UNCHANGED <<harFiles, merged, paths, normalized, input>>

\* Step 3: mergeHarFiles(filteredHars).
MergeStep ==
  /\ pc = "merge"
  /\ IF mergeHarFilesRaises(output.filteredHars)
       THEN Raise("merge", <<"TypeError">>)
       ELSE /\ output' = [output EXCEPT !.steps = Append(@, "merge"),
                                        !.mergedHar = <<MergedEntries(output.filteredHars)>>]
            /\ pc' = "redact"
  /\ UNCHANGED <<harFiles, merged, paths, normalized, input>>

\* Step 4: redactHarFile(mergedHar) if options.redact.
RedactStep ==
  /\ pc = "redact"
  /\ IF ~input.options.redact
       THEN /\ output' = [output EXCEPT !.processedHar = output.mergedHar]
            /\ pc' = "convert"
       ELSE IF \E i \in 1..Len(output.mergedHar[1]) : redactEntryRaises(output.mergedHar[1][i])
         THEN Raise("redact", <<"TypeError">>)
       ELSE /\ output' = [output EXCEPT !.steps = Append(@, "redact"),
                                        !.processedHar = <<RedactedEntries(output.mergedHar[1])>>]
            /\ pc' = "convert"
  /\ UNCHANGED <<harFiles, merged, paths, normalized, input>>

\* Step 5: await convertHarToOpenApi(processedHar, ...); the library it
\* calls may reject.
ConvertStep ==
  /\ pc = "convert"
  /\ \E raises \in BOOLEAN :
       IF raises THEN Raise("convert", <<"Error">>)
       ELSE /\ output' = [output EXCEPT !.steps = Append(@, "convert")]
            /\ pc' = "build"
  /\ UNCHANGED <<harFiles, merged, paths, normalized, input>>

\* Step 6: buildOpenApiSpec(rawSpec, ...).
BuildStep ==
  /\ pc = "build"
  /\ output' = [output EXCEPT !.steps = Append(@, "build")]
  /\ pc' = "write"
  /\ UNCHANGED <<harFiles, merged, paths, normalized, input>>

\* Step 7: await writeOpenApiSpec(finalSpec, ...); the file system may
\* refuse. The specification written is that of processedHar.
WriteStep ==
  /\ pc = "write"
  /\ \E raises \in BOOLEAN :
       IF raises THEN Raise("write", <<"Error">>)
       ELSE /\ output' = [output EXCEPT !.steps = Append(@, "write"),
                                        !.written = output.processedHar]
            /\ pc' = "docs"
  /\ UNCHANGED <<harFiles, merged, paths, normalized, input>>

\* Step 8: await generateDocs(...) if options.docs, then the end of the
\* try block.
DocsStep ==
  /\ pc = "docs"
  /\ IF ~input.options.docs
       THEN /\ output' = [output EXCEPT !.exitCode = <<0>>]
            /\ pc' = "returned"
       ELSE \E raises \in BOOLEAN :
              IF raises THEN Raise("docs", <<"Error">>)
              ELSE /\ output' = [output EXCEPT !.steps = Append(@, "docs"),
                                               !.docs = TRUE, !.exitCode = <<0>>]
                   /\ pc' = "returned"
  /\ UNCHANGED <<harFiles, merged, paths, normalized, input>>

\* catch (error) { log.error(...); process.exit(1); }
CatchClause ==
  /\ pc = "catch"
  /\ output' = [output EXCEPT !.exitCode = <<1>>]
  /\ pc' = "exited"
  /\ UNCHANGED <<harFiles, merged, paths, normalized, input>>

ConvertNext ==
  \/ ParseStep
  \/ FilterStep
  \/ MergeStep
  \/ RedactStep
  \/ ConvertStep
  \/ BuildStep
  \/ WriteStep
  \/ DocsStep
  \/ CatchClause

SpecConvert == ConvertInit /\ [][ConvertNext]_vars

(***************************************************************************)
(* Properties of the merger.                                               *)
(***************************************************************************)
Flat == flatMapEntries(harFiles)

\* mergeHarFiles has returned from its deduplicating branch.
MergedMany == pc = "done" /\ Len(harFiles) >= 2

Out == merged.har[1].entries

\* The keys of a sequence of entries, position by position.
KeysOf(seq) == [i \in 1..Len(seq) |-> getEntryKey(seq[i])]

\* The position in seq of the first entry of the largest declared size
\* among the entries of seq with this key.
FirstLargest(seq, keys, key) ==
  CHOOSE i \in 1..Len(seq) :
    /\ keys[i] = key
    /\ \A j \in 1..Len(seq) : keys[j] = key =>
         /\ BodySize(seq[j]) <= BodySize(seq[i])
         /\ (BodySize(seq[j]) = BodySize(seq[i]) => i <= j)

\* C1: merging two or more files retains, for every dedup key, the flattened
\* record with the largest response content size (absent counts as 0), and
\* the first such record in flattened order when several tie.
C1_LargestFirstWins ==
  MergedMany =>
    \A flat \in {Flat}, out \in {Out} : \A fk \in {KeysOf(flat)}, ok \in {KeysOf(out)} :
        \A i \in 1..Len(flat) :
          /\ \E o \in 1..Len(out) : ok[o] = fk[i]
          /\ \A o \in 1..Len(out) :
               ok[o] = fk[i] => out[o] = flat[FirstLargest(flat, fk, fk[i])]

\* A smaller record, then two different records that tie for the largest
\* size, all of one key: the first of the two is the one retained.
C1_Witness ==
  /\ MergedMany
  /\ Len(Flat) = 3
  /\ getEntryKey(Flat[1]) = getEntryKey(Flat[2])
  /\ getEntryKey(Flat[2]) = getEntryKey(Flat[3])
  /\ BodySize(Flat[1]) < BodySize(Flat[2])
  /\ BodySize(Flat[2]) = BodySize(Flat[3])
  /\ Flat[2] # Flat[3]
  /\ Out = <<Flat[2]>>

\* C2: merging two or more files yields exactly one record per dedup key of
\* the flattened input: no key twice, no key missing, and every output
\* record is an input record.
C2_OnePerKey ==
  MergedMany =>
    \A flat \in {Flat}, out \in {Out} : \A fk \in {KeysOf(flat)}, ok \in {KeysOf(out)} :
        /\ \A a, b \in 1..Len(out) : ok[a] = ok[b] => a = b
        /\ \A i \in 1..Len(flat) : \E o \in 1..Len(out) : ok[o] = fk[i]
        /\ \A o \in 1..Len(out) : \E i \in 1..Len(flat) : out[o] = flat[i]

\* Three input records of two keys become two output records.
C2_Witness ==
  /\ MergedMany
  /\ Len(Flat) = 3
  /\ Len(Out) = 2
  /\ getEntryKey(Flat[1]) = getEntryKey(Flat[3])
  /\ getEntryKey(Flat[1]) # getEntryKey(Flat[2])

\* C3: mergeHarFiles throws on zero files and returns a single file as it
\* is, with no deduplication and no sorting.
C3_ZeroThrowsOneUnchanged ==
  pc = "done" =>
    /\ Len(harFiles) = 0 => merged.kind = "threw"
    /\ Len(harFiles) = 1 => merged = [kind |-> "returned", har |-> <<harFiles[1]>>]

\* A single file with two records of one key, in an order the sort would
\* change, is returned as it is.
C3_Witness ==
  /\ pc = "done"
  /\ Len(harFiles) = 1
  /\ Len(harFiles[1].entries) = 3
  /\ getEntryKey(harFiles[1].entries[1]) = getEntryKey(harFiles[1].entries[2])
  /\ compareEntries(harFiles[1].entries[2], harFiles[1].entries[3]) > 0
  /\ merged.kind = "returned"
  /\ merged.har[1].entries = harFiles[1].entries

\* Two records have the same URL and status and methods equal up to case.
SameUpToMethodCase(a, b) ==
  /\ a.url = b.url
  /\ a.status = b.status
  /\ toUpperCase(a.method) = toUpperCase(b.method)

\* C4: records whose methods differ only in letter case have the same dedup
\* key and are collapsed into one record by the merge.
C4_MethodCaseCollapsed ==
  MergedMany =>
    \A flat \in {Flat}, out \in {Out} : \A fk \in {KeysOf(flat)} :
        /\ \A i, j \in 1..Len(flat) : SameUpToMethodCase(flat[i], flat[j]) => fk[i] = fk[j]
        /\ \A a, b \in 1..Len(out) : SameUpToMethodCase(out[a], out[b]) => a = b

\* The URL up to its query string.
BeforeQuery(url) == SubSeq(url, 1, FindFrom(url, 1, {"?"}) - 1)

\* Two parsable URLs differ at most in the query string.
SameUpToQuery(u, v) ==
  /\ UrlParses(u)
  /\ UrlParses(v)
  /\ BeforeQuery(u) = BeforeQuery(v)

\* The key of the catch branch: method, raw URL, status.
RawKey(entry) ==
  entry.method \o <<":">> \o entry.url \o <<":">> \o NumberToString(entry.status)

\* C5: records of the same method and status whose URLs differ only in the
\* query string have the same key; an unparsable URL yields the key built
\* from the raw URL string.
C5_QueryStrippedRawFallback ==
  pc = "done" =>
    \A flat \in {Flat} : \A fk \in {KeysOf(flat)} :
        /\ \A i, j \in 1..Len(flat) :
             ( /\ flat[i].method = flat[j].method
               /\ flat[i].status = flat[j].status
               /\ SameUpToQuery(flat[i].url, flat[j].url) )
             => fk[i] = fk[j]
        /\ \A i \in 1..Len(flat) : ~UrlParses(flat[i].url) => fk[i] = RawKey(flat[i])

\* Two records whose URLs differ in the query only were merged into one,
\* next to two unparsable URLs that differ in the query and stayed apart.
C5_Witness ==
  /\ MergedMany
  /\ Len(Flat) = 3
  /\ Len(Out) = 2
  /\ LET flat == Flat
     IN  /\ \E i, j \in 1..Len(flat) :
              /\ flat[i].url # flat[j].url
              /\ SameUpToQuery(flat[i].url, flat[j].url)
              /\ getEntryKey(flat[i]) = getEntryKey(flat[j])
         /\ \E i \in 1..Len(flat) : ~UrlParses(flat[i].url)

\* The records a merge output retains, as a set.
Retained(entries) == {entries[i] : i \in 1..Len(entries)}

\* The sequence seq rearranged by the permutation p of its positions.
Rearranged(seq, p) == [i \in 1..Len(seq) |-> seq[p[i]]]

\* C6: the order of the merge output depends only on which records are
\* retained: the same records supplied in another order, when the same
\* records are retained, come out in the same order.
C6_OrderIndependentOfInput ==
  MergedMany =>
    \A flat \in {Flat}, out \in {Out} :
        \A p \in Permutations(1..Len(flat)) :
          LET other == deduplicateEntries(Rearranged(flat, p))
          IN  Retained(other) = Retained(out) => other = out

\* The priority the claim gives a method: its index in (GET, POST, PUT,
\* PATCH, DELETE) once upper-cased, -1 for any other method.
ListedPriority(method) ==
  LET m == toUpperCase(method)
  IN  IF m = <<"G","E","T">> THEN 0
      ELSE IF m = <<"P","O","S","T">> THEN 1
      ELSE IF m = <<"P","U","T">> THEN 2
      ELSE IF m = <<"P","A","T","C","H">> THEN 3
      ELSE IF m = <<"D","E","L","E","T","E">> THEN 4
      ELSE -1

VisitedKeys == {methods[i] : i \in 1..Len(methods)}

\* The {name} tokens of a template, left to right.
TokensOf(template) == ParamNamesFrom(template, 1)

\* The operation declares the path parameter of this name: in the path,
\* required and string-typed.
DeclaresPathParameter(operation, name) ==
  \E k \in 1..Len(operation.parameters) : operation.parameters[k] = PathParameter(name)

\* C8: after normalizeOpenApiPaths every operation under every output
\* template declares a path parameter for each {name} token of the
\* template, whether the operation came from the first path of the template
\* or from a later path merged into it. Stated for the operations of the
\* methods the normalizer visits.
C8_EveryOperationHasPathParams ==
  pc = "done" =>
    \A out \in {normalized} :
      \A t \in 1..Len(out), key \in VisitedKeys :
        Declares(out[t].item[1], key) =>
          \A tokens \in {TokensOf(out[t].path)} :
            \A n \in 1..Len(tokens) :
              DeclaresPathParameter(out[t].item[1][key][1], tokens[n])

\* The positions of the input pairs that carry a path item and normalize to
\* the template.
Contributors(pairs, template) ==
  {i \in 1..Len(pairs) : pairs[i].item # <<>> /\ NormalizedInputPath[pairs[i].path] = template}

\* The earliest contributor of the template that declares the key.
FirstDeclaring(pairs, template, key) ==
  CHOOSE i \in Contributors(pairs, template) :
    /\ Declares(pairs[i].item[1], key)
    /\ \A j \in Contributors(pairs, template) : Declares(pairs[j].item[1], key) => i <= j

\* Under every template of the input there is one output item, and for each
\* of the given keys it holds an operation exactly when some contributor
\* declares one: the operation of the earliest contributor that does.
MergedFirstWins(pairs, out, keys) ==
  /\ \A t \in 1..Len(out) : Contributors(pairs, out[t].path) # {}
  /\ \A i \in 1..Len(pairs) :
       pairs[i].item # <<>> =>
         \A template \in {NormalizedInputPath[pairs[i].path]} :
           /\ \E t \in 1..Len(out) : out[t].path = template
           /\ \A t \in 1..Len(out) :
                out[t].path = template =>
                  /\ \A u \in 1..Len(out) : out[u].path = template => u = t
                  /\ \A key \in keys :
                       /\ Declares(out[t].item[1], key) <=>
                            \E j \in Contributors(pairs, template) : Declares(pairs[j].item[1], key)
                       /\ Declares(out[t].item[1], key) =>
                            out[t].item[1][key][1].operationId =
                              pairs[FirstDeclaring(pairs, template, key)].item[1][key][1].operationId

NoDuplicates(seq) == \A i, j \in 1..Len(seq) : seq[i] = seq[j] => i = j

\* The names of the path parameters an operation declares, in order.
PathParameterNames(operation) ==
  LET at == SelectSeqBy([k \in 1..Len(operation.parameters) |-> k],
                        {k \in 1..Len(operation.parameters) : operation.parameters[k].in = "path"})
  IN  [k \in 1..Len(at) |-> operation.parameters[at[k]].name]

\* C10: no output template holds a {name} token twice, and no operation
\* under it declares two path parameters of the same name.
C10_ParameterNamesUnique ==
  pc = "done" =>
    \A out \in {normalized} :
      \A t \in 1..Len(out) :
        /\ NoDuplicates(TokensOf(out[t].path))
        /\ \A key \in OperationKeys :
             Declares(out[t].item[1], key) =>
               NoDuplicates(PathParameterNames(out[t].item[1][key][1]))


(***************************************************************************)
(* Properties of normalizePath.                                            *)
(***************************************************************************)
\* The segments of a path that starts with "/".
RECURSIVE SegmentsFrom(_, _)
SegmentsFrom(path, i) ==
  IF i > Len(path) THEN <<>>
  ELSE LET e == FindFrom(path, i + 1, {"/"})
       IN  <<SubSeq(path, i + 1, e - 1)>> \o SegmentsFrom(path, e)

IsUuidSegment(seg) == GroupsEnd(seg, 0, UuidGroups) = Len(seg) /\ Len(seg) > 0

IsDigitsSegment(seg) ==
  Len(seg) >= MinIdDigits /\ \A i \in 1..Len(seg) : seg[i] \in DigitChars

IsIdSegment(seg) == IsUuidSegment(seg) \/ IsDigitsSegment(seg)

\* The placeholder of the family whose name is the segment, or <<>>.
FamilyPlaceholder(seg) ==
  IF seg = SegFrames THEN <<"{">> \o ParamFrameId \o <<"}">>
  ELSE IF seg = SegChores THEN <<"{","c","h","o","r","e","I","d","}">>
  ELSE IF seg = SegLists THEN <<"{","l","i","s","t","I","d","}">>
  ELSE <<>>

IdPlaceholder == <<"{","i","d","}">>

DocumentedTemplate ==
  JoinPath(<<SegApi, SegFrames, FamilyPlaceholder(SegFrames),
             SegChores, FamilyPlaceholder(SegChores)>>)

\* C11: normalizePath replaces every ID segment (UUID-shaped or 5+ digits)
\* that follows a family segment by that family's placeholder and every
\* other ID segment by {id}; the documented frames/chores path normalizes
\* to /api/frames/{frameId}/chores/{choreId}.
C11_FamilyIdsReplaced ==
  pc = "done" =>
    \A inSegs \in {SegmentsFrom(input, 1)}, outSegs \in {SegmentsFrom(output, 1)} :
      /\ Len(outSegs) = Len(inSegs)
      /\ \A i \in 1..Len(inSegs) :
           IsIdSegment(inSegs[i]) =>
             outSegs[i] = (IF i > 1 /\ FamilyPlaceholder(inSegs[i - 1]) # <<>>
                             THEN FamilyPlaceholder(inSegs[i - 1])
                             ELSE IdPlaceholder)
      /\ (input = DocumentedPath => output = DocumentedTemplate)

\* The documented example alone.
C11_DocumentedExample ==
  (pc = "done" /\ input = DocumentedPath) => output = DocumentedTemplate

\* The segment is one placeholder token: {name}.
IsPlaceholder(seg) ==
  /\ Len(seg) > 2
  /\ seg[1] = "{" /\ seg[Len(seg)] = "}"
  /\ \A i \in 2..(Len(seg) - 1) : seg[i] \notin {"{", "}", "/"}

\* C29: every placeholder normalizePath introduces stands for one whole
\* segment: each { follows a "/" and each } is followed by "/" or ends the
\* path; and every segment of the output is the input's segment at that
\* position, or a placeholder in its place.
C29_PlaceholdersWholeSegments ==
  pc = "done" =>
    /\ \A i \in 1..Len(output) :
         /\ output[i] = "{" => (i > 1 /\ output[i - 1] = "/")
         /\ output[i] = "}" => (i = Len(output) \/ output[i + 1] = "/")
    /\ \A inSegs \in {SegmentsFrom(input, 1)}, outSegs \in {SegmentsFrom(output, 1)} :
         /\ Len(outSegs) = Len(inSegs)
         /\ \A i \in 1..Len(inSegs) :
              outSegs[i] = inSegs[i] \/ IsPlaceholder(outSegs[i])

\* The path is a template already: no segment is an ID, and the segment
\* after a family name is that family's placeholder.
IsTemplate(segs) ==
  \A i \in 1..Len(segs) :
    /\ ~IsIdSegment(segs[i])
    /\ (i > 1 /\ FamilyPlaceholder(segs[i - 1]) # <<>>)
         => segs[i] = FamilyPlaceholder(segs[i - 1])

\* C30: normalizePath is idempotent: applied to its own output it returns
\* that output, so that a path that is a template already is mapped to
\* itself.
C30_Idempotent ==
  pc = "done" =>
    /\ normalizePath(output) = output
    /\ IsTemplate(SegmentsFrom(input, 1)) => output = input

\* The documented path was rewritten, and its template is mapped to itself.
C30_Witness ==
  /\ pc = "done"
  /\ input = DocumentedPath
  /\ output = DocumentedTemplate
  /\ IsTemplate(SegmentsFrom(output, 1))
  /\ normalizePath(output) = output

\* Every template normalizeOpenApiPaths returned is mapped to itself, so
\* that normalizing its output again keeps the same templates.
C30_TemplatesStable ==
  pc = "done" =>
    \A i \in 1..Len(normalized) :
      normalizePath(normalized[i].path) = normalized[i].path


(***************************************************************************)
(* Properties of redactBody.                                               *)
(***************************************************************************)
\* The two values have the same shape: the same type of container with the
\* same keys in every object and the same length in every array, a leaf
\* where the other has a leaf.
RECURSIVE SameShape(_, _)
SameShape(a, b) ==
  IF a.t = "object"
    THEN /\ b.t = "object"
         /\ Len(b.v) = Len(a.v)
         /\ \A i \in 1..Len(a.v) :
              b.v[i].key = a.v[i].key /\ SameShape(a.v[i].value, b.v[i].value)
  ELSE IF a.t = "array"
    THEN /\ b.t = "array"
         /\ Len(b.v) = Len(a.v)
         /\ \A i \in 1..Len(a.v) : SameShape(a.v[i], b.v[i])
  ELSE b.t \notin {"object", "array"}

\* C12: redactBody returns a value of the same shape as its argument (same
\* key set in every object, same length of every array, same nesting at
\* every position), also when a sensitive field holds an object, an array
\* or null.
C12_ShapePreserved ==
  pc = "done" => SameShape(input, output)

\* The pairs (original, redacted) of the values of the fields with a
\* sensitive name, anywhere in the value where redaction kept the position.
RECURSIVE SensitivePairs(_, _)
SensitivePairs(a, b) ==
  IF a.t = "object" /\ b.t = "object"
    THEN UNION {
           IF indexOf(SENSITIVE_BODY_FIELDS, toLowerCase(a.v[i].key)) >= 0
             THEN {<<a.v[i].value, b.v[i].value>>}
             ELSE SensitivePairs(a.v[i].value, b.v[i].value) : i \in 1..Len(a.v)}
  ELSE IF a.t = "array" /\ b.t = "array"
    THEN UNION {SensitivePairs(a.v[i], b.v[i]) : i \in 1..Len(a.v)}
  ELSE {}

\* C13: a sensitive field whose original value is not a string (a number,
\* a boolean, null, an array or an object) keeps that value; this holds for
\* every sensitive field name.
C13_NonStringsUnchanged ==
  pc = "done" =>
    \A pair \in SensitivePairs(input, output) :
      pair[1].t # "string" => pair[2] = pair[1]


(***************************************************************************)
(* Properties of redactHarFile.                                            *)
(***************************************************************************)
\* C14: in a redacted record no UUID-shaped value remains in the request
\* URL (path IDs become parameter placeholders, UUID query values the ID
\* placeholder) nor in the query parameters.
C14_UrlSanitized ==
  pc = "done" =>
    \A i \in 1..Len(output.entries) :
      /\ ~PiiTest("uuid", output.entries[i].request.url)
      /\ \A q \in 1..Len(output.entries[i].request.queryString) :
           ~PiiTest("uuid", output.entries[i].request.queryString[q].value)


(***************************************************************************)
(* Properties of redactHeaders.                                            *)
(***************************************************************************)
\* The name is one of the sensitive header names, whatever its case.
IsSensitiveHeaderName(name) ==
  \E k \in 1..Len(SENSITIVE_HEADERS) : toUpperCase(name) = toUpperCase(SENSITIVE_HEADERS[k])

\* C15: redactHeaders returns a list of the same length and order in which
\* every header with a sensitive name (in any case) has the token
\* placeholder as value and every other header is unchanged, duplicates
\* included.
C15_HeadersRedacted ==
  pc = "done" =>
    /\ Len(output) = Len(input)
    /\ \A i \in 1..Len(input) :
         IF IsSensitiveHeaderName(input[i].name)
           THEN output[i] = [name |-> input[i].name, value |-> REDACTION_PLACEHOLDERS.token]
           ELSE output[i] = input[i]

\* A sensitive header occurs twice, once with a value to redact, next to a
\* header that is not sensitive.
C15_Witness ==
  /\ pc = "done"
  /\ \E i, j, k \in 1..Len(input) :
       /\ i # j
       /\ input[i].name = input[j].name
       /\ IsSensitiveHeaderName(input[i].name)
       /\ input[i].name # toLowerCase(input[i].name)
       /\ output[i] # input[i]
       /\ ~IsSensitiveHeaderName(input[k].name)
       /\ output[k] = input[k]


(***************************************************************************)
(* Properties of redactQueryString.                                        *)
(***************************************************************************)
\* The categories in priority order, each with its placeholder.
QueryCategories ==
  << [pattern |-> "uuid", placeholder |-> REDACTION_PLACEHOLDERS.id],
     [pattern |-> "email", placeholder |-> REDACTION_PLACEHOLDERS.email],
     [pattern |-> "jwt", placeholder |-> REDACTION_PLACEHOLDERS.token] >>

\* C16: redactQueryString returns a list of the same length and order with
\* every name unchanged; a value becomes the placeholder of the first of the
\* UUID, email and JWT patterns that matches it and is unchanged when none
\* matches.
C16_FirstCategoryWins ==
  pc = "done" =>
    /\ Len(output) = Len(input)
    /\ \A i \in 1..Len(input) :
         /\ output[i].name = input[i].name
         /\ \A c \in 1..Len(QueryCategories) :
              (/\ PiiTest(QueryCategories[c].pattern, input[i].value)
               /\ \A b \in 1..(c - 1) : ~PiiTest(QueryCategories[b].pattern, input[i].value))
                => output[i].value = QueryCategories[c].placeholder
         /\ (\A c \in 1..Len(QueryCategories) :
               ~PiiTest(QueryCategories[c].pattern, input[i].value))
              => output[i].value = input[i].value

\* A value that matches two patterns takes the placeholder of the first,
\* next to a value that matches none.
C16_Witness ==
  /\ pc = "done"
  /\ \E i, j \in 1..Len(input) :
       /\ PiiTest("uuid", input[i].value) /\ PiiTest("email", input[i].value)
       /\ output[i].value = REDACTION_PLACEHOLDERS.id
       /\ input[j].value = StrPlain /\ output[j] = input[j]


\* The body is not subject to redaction: it has no text, its media type
\* does not contain "json", or its text is not parsable JSON.
PassesThrough(body) ==
  \/ body.text = <<>>
  \/ ~includes(body.mimeType, MimeJson)
  \/ JsonParse(body.text[1]) = <<>>

BaseTypes(schemas) ==
  {schemas[i].type[k] : <<i, k>> \in
     {ik \in (1..Len(schemas)) \X (1..2) : ik[2] <= Len(schemas[ik[1]].type)}}

\* The members of a union node, none for any other node.
Members(schema) == IF schema.oneOf = <<>> THEN <<>> ELSE schema.oneOf[1]

IsUnion(schema) == schema.oneOf # <<>> /\ schema.type = <<>>

\* mergeSchemas has run on several schemas that carry more than one base type.
MergedMixed ==
  /\ pc = "done"
  /\ input.op = "merge"
  /\ Len(input.schemas) > 1
  /\ Cardinality(BaseTypes(input.schemas)) > 1

\* C18: mergeSchemas over schemas of differing base types returns a union
\* (oneOf) in which every base type among the inputs is the type of a
\* member.
C18_MixedTypesUnion ==
  MergedMixed =>
    /\ IsUnion(output)
    /\ \A t \in BaseTypes(input.schemas) :
         \E m \in 1..Len(Members(output)) : t \in BaseTypes(<<Members(output)[m]>>)

\* A string schema and an integer schema are merged into a union of both.
C18_Witness ==
  /\ MergedMixed
  /\ input.schemas = <<NodeString, NodeInteger>>
  /\ Members(output) = <<NodeString, NodeInteger>>

\* The inputs that carry the type, in order.
OfType(schemas, t) == SelectSeq(schemas, LAMBDA schema : schema.type = <<t>>)

\* C19: when the inputs (each of one base type) have more than one base
\* type, the union has exactly one member per base type, and that member is
\* the merge of all inputs of the type.
C19_GroupedByType ==
  (MergedMixed /\ \A i \in 1..Len(input.schemas) : Len(input.schemas[i].type) = 1) =>
    /\ IsUnion(output)
    /\ Len(Members(output)) = Cardinality(BaseTypes(input.schemas))
    /\ \A t \in BaseTypes(input.schemas) :
         \E m \in 1..Len(Members(output)) :
           Members(output)[m] = mergeSchemas(OfType(input.schemas, t))

\* No union in the schema, at any depth, has a union as a direct member.
RECURSIVE UnionsFlat(_)
UnionsFlat(schema) ==
  /\ \A m \in 1..Len(Members(schema)) :
       Members(schema)[m].oneOf = <<>> /\ UnionsFlat(Members(schema)[m])
  /\ \A i \in 1..Len(schema.items) : UnionsFlat(schema.items[i])
  /\ \A i \in 1..Len(PropertiesOf(schema)) : UnionsFlat(PropertiesOf(schema)[i].value)

\* C20: no schema that inferSchema or mergeSchemas produces is a union with
\* a union as a direct member, at any depth.
C20_UnionsFlat ==
  pc = "done" => UnionsFlat(output)

\* The names of the fields of an object node.
FieldSet(schema) == {PropertiesOf(schema)[i].key : i \in 1..Len(PropertiesOf(schema))}

\* The names an object node requires.
RequiredSet(schema) ==
  IF schema.required = <<>> THEN {}
  ELSE {schema.required[1][i] : i \in 1..Len(schema.required[1])}

\* The node of the field in an object node that has it.
FieldNode(schema, key) ==
  LET entries == PropertiesOf(schema)
  IN  entries[CHOOSE i \in 1..Len(entries) : entries[i].key = key].value

\* mergeSchemas was called on two or more object nodes.
MergedObjects ==
  /\ pc # "start"
  /\ input.op = "merge"
  /\ Len(input.schemas) > 1
  /\ \A i \in 1..Len(input.schemas) : input.schemas[i].type = <<"object">>

\* C21: when object nodes are merged, the merge returns an object node
\* whose field set is the union of the inputs' field sets, each field being
\* the merge of the field's nodes in the inputs that have it, and whose
\* required set is the union of the inputs' required sets.
C21_ObjectFieldsUnion ==
  MergedObjects =>
    /\ pc = "done"
    /\ output.type = <<"object">>
    /\ FieldSet(output) =
         UNION {FieldSet(input.schemas[i]) : i \in 1..Len(input.schemas)}
    /\ \A key \in FieldSet(output) :
         FieldNode(output, key) = mergeSchemas(PropertySchemas(input.schemas, key))
    /\ RequiredSet(output) =
         UNION {RequiredSet(input.schemas[i]) : i \in 1..Len(input.schemas)}

\* The same, for the object nodes none of whose fields is named like a
\* member of Object.prototype.
C21_PlainNamesOnly ==
  (MergedObjects /\ \A i \in 1..Len(input.schemas) :
                     FieldSet(input.schemas[i]) \cap ObjectPrototypeKeys = {}) =>
    /\ pc = "done"
    /\ FieldSet(output) =
         UNION {FieldSet(input.schemas[i]) : i \in 1..Len(input.schemas)}
    /\ \A key \in FieldSet(output) :
         (key \in RequiredSet(output)) <=>
           \E i \in 1..Len(input.schemas) : key \in RequiredSet(input.schemas[i])

\* inferSchema returned for an array of object samples: its items node is
\* the merge of the nodes inferred from the samples.
InferredSamples ==
  /\ pc = "done"
  /\ input.op = "infer"
  /\ input.data.t = "array"
  /\ Len(input.data.v) > 0
  /\ \A i \in 1..Len(input.data.v) : input.data.v[i].t = "object"

\* The sample has the field, with the value null.
NullIn(sample, key) ==
  \E i \in 1..Len(sample.v) : sample.v[i].key = key /\ sample.v[i].value.t = "null"

\* C22: after merging the object nodes inferred from several samples, a
\* field that was null in at least one sample has nullable = true on its
\* merged field node, whatever the other samples carried.
C22_NullableAcrossMerge ==
  InferredSamples =>
    \A key \in {KeyName, KeyConstructor} :
      (\E i \in 1..Len(input.data.v) : NullIn(input.data.v[i], key)) =>
        /\ key \in FieldSet(output.items[1])
        /\ FieldNode(output.items[1], key).nullable = <<TRUE>>

\* The schema has room for the value's observed types, at every nesting
\* level: it is unconstrained, or a union with a member that has, or its
\* type is the base type of the value's inferred node and its items (its
\* fields' nodes) have room for the value's elements (fields).
RECURSIVE Admits(_, _)
Admits(schema, value) ==
  IF schema.type = <<>> /\ schema.oneOf = <<>> THEN TRUE
  ELSE IF schema.oneOf # <<>>
    THEN \E m \in 1..Len(Members(schema)) : Admits(Members(schema)[m], value)
  ELSE /\ inferSchema(value).type = schema.type
       /\ value.t = "array" =>
            \A i \in 1..Len(value.v) :
              \A k \in 1..Len(schema.items) : Admits(schema.items[k], value.v[i])
       /\ value.t = "object" =>
            \A i \in 1..Len(value.v) :
              /\ value.v[i].key \in FieldSet(schema)
              /\ Admits(FieldNode(schema, value.v[i].key), value.v[i].value)

\* C27: the schema inferred for a JSON array loses no observed type: at
\* every nesting level the base type of each element is the type of the
\* item schema or of a member of its union, or the item schema is
\* unconstrained.
C27_NoTypeLost ==
  (pc = "done" /\ input.op = "infer" /\ input.data.t = "array") =>
    Admits(output, input.data)

\* The placeholders of the redaction.
Placeholders ==
  {REDACTION_PLACEHOLDERS.string, REDACTION_PLACEHOLDERS.email,
   REDACTION_PLACEHOLDERS.phone, REDACTION_PLACEHOLDERS.id,
   REDACTION_PLACEHOLDERS.url, REDACTION_PLACEHOLDERS.token}

\* Every string-valued field with a sensitive name, in every object at any
\* depth of the value, holds a placeholder.
RECURSIVE SensitiveStringsReplaced(_)
SensitiveStringsReplaced(data) ==
  IF data.t = "object"
    THEN \A i \in 1..Len(data.v) :
           /\ (/\ indexOf(SENSITIVE_BODY_FIELDS, toLowerCase(data.v[i].key)) >= 0
               /\ data.v[i].value.t = "string")
                => data.v[i].value.v \in Placeholders
           /\ SensitiveStringsReplaced(data.v[i].value)
  ELSE IF data.t = "array"
    THEN \A i \in 1..Len(data.v) : SensitiveStringsReplaced(data.v[i])
  ELSE TRUE

\* C26: after redactBody, every string-valued field with a sensitive name
\* at any depth of the output holds a placeholder, also inside the object
\* or array value of another sensitive field or of an ID field.
C26_NestedSensitiveRedacted ==
  pc = "done" => SensitiveStringsReplaced(output)


(***************************************************************************)
(* Properties of redactUrl.                                                *)
(***************************************************************************)
\* The positions of the resource IDs: the segments made of hex digits and
\* dashes that follow a family name.
IdPositions(segs) ==
  {i \in 2..Len(segs) :
     /\ FamilyPlaceholder(segs[i - 1]) # <<>>
     /\ segs[i] # <<>>
     /\ \A k \in 1..Len(segs[i]) : segs[i][k] \in HexDashChars}

\* The URL holds resource IDs, each of another family, and after a family
\* name nothing else that starts like an ID.
HasResourceIds(segs) ==
  /\ IdPositions(segs) # {}
  /\ \A i, j \in IdPositions(segs) : segs[i - 1] = segs[j - 1] => i = j
  /\ \A i \in 2..Len(segs) :
       (FamilyPlaceholder(segs[i - 1]) # <<>> /\ segs[i] # <<>>
          /\ segs[i][1] \in HexDashChars) => i \in IdPositions(segs)

\* The name between the braces of a placeholder.
ParamNameOf(placeholder) == SubSeq(placeholder, 2, Len(placeholder) - 1)

\* C24: redactUrl rewrites each resource ID in place and keeps the resource
\* name: the redacted URL is the original with only the IDs replaced by
\* {paramName}, and pathParams holds each (paramName, ID).
C24_IdReplacedInPlace ==
  (pc = "done" /\ input.query = <<>>) =>
    \A segs \in {SegmentsFrom(input.path, 1)} :
      HasResourceIds(segs) =>
        /\ output.redactedUrl =
             input.origin \o
               JoinPath([i \in 1..Len(segs) |->
                           IF i \in IdPositions(segs)
                             THEN FamilyPlaceholder(segs[i - 1]) ELSE segs[i]])
        /\ \A i \in IdPositions(segs) :
             \E k \in 1..Len(output.pathParams) :
               output.pathParams[k] =
                 [name |-> ParamNameOf(FamilyPlaceholder(segs[i - 1])),
                  originalValue |-> segs[i]]

\* The part of C24 about pathParams alone.
C24_PathParamsRecorded ==
  (pc = "done" /\ input.query = <<>>) =>
    \A segs \in {SegmentsFrom(input.path, 1)} :
      HasResourceIds(segs) =>
        \A i \in IdPositions(segs) :
          \E k \in 1..Len(output.pathParams) :
            output.pathParams[k] =
              [name |-> ParamNameOf(FamilyPlaceholder(segs[i - 1])),
               originalValue |-> segs[i]]

(***************************************************************************)
(* Properties of the parser and of the convert command.                    *)
(***************************************************************************)
\* The structural violations of a capture, told on its JSON value: an
\* object is a JSON object, an array a JSON array.
EntryViolation(entry) ==
  \/ Prop(entry, FieldRequest).t # "object"
  \/ Prop(entry, FieldResponse).t # "object"
  \/ Prop(Prop(entry, FieldRequest), FieldUrl).t # "string"
  \/ Prop(Prop(entry, FieldRequest), FieldMethod).t # "string"

StructuralViolation(har) ==
  \/ Prop(har, FieldLog).t = "undefined"
  \/ Prop(Prop(har, FieldLog), FieldEntries).t # "array"
  \/ \E i \in 1..Len(Prop(Prop(har, FieldLog), FieldEntries).v) :
       EntryViolation(Prop(Prop(har, FieldLog), FieldEntries).v[i])

ViolatingFiles == {i \in 1..Len(input.files) : StructuralViolation(input.files[i].content)}

\* C23: once the files are parsed, if one of them has a structural
\* violation (log missing, log.entries not an array, an entry without a
\* request object, a response object, a string url or a string method),
\* parseMultipleHarFiles has raised an error that carries the path of the
\* file it stopped at, that file is the last one it read and is no later
\* than the first violating file, and no result is returned.
C23_StructuralViolationsRejected ==
  (pc # "start" /\ ViolatingFiles # {}) =>
    /\ output.error # <<>>
    /\ output.raisedBy = "parse"
    /\ output.read \in 1..Len(input.files)
    /\ \A i \in ViolatingFiles : output.read <= i
    /\ output.error = ParseFailure(input.files[output.read].path,
                                   parseHarFile(input.files[output.read].content)[1])
    /\ output.parsed = <<>>

\* The failure of parseMultipleHarFiles itself: the error names the file
\* the loop stopped at, every earlier file parsed, and nothing is returned.
C23_FailFast ==
  (pc # "start" /\ output.raisedBy = "parse" /\ input.files # <<>>) =>
    /\ output.read \in 1..Len(input.files)
    /\ output.error[2] = input.files[output.read].path
    /\ \A i \in 1..(output.read - 1) : parseHarFile(input.files[i].content) = <<>>
    /\ output.parsed = <<>>
    /\ output.filteredHars = <<>>

\* The steps begun so far are the first steps of the fixed order, without
\* the redaction under --no-redact and the documentation under --no-docs.
StepsInOrder ==
  LET Runs(step) == /\ step = "redact" => input.options.redact
                    /\ step = "docs" => input.options.docs
  IN  \E k \in 0..Len(StepOrder) :
        output.steps = SelectSeq(SubSeq(StepOrder, 1, k), Runs)

Began(step) == \E i \in 1..Len(output.steps) : output.steps[i] = step

\* C25: the steps run in the order parse, filter, merge, redact, convert,
\* build, write, docs; with redaction on, the specification written is that
\* of the merged entries each redacted; when the filters leave no entry the
\* command returns after the filter step with nothing merged, converted or
\* written; when a step raises, it is the last step begun and the process
\* exits with status 1.
C25_PipelineOrder ==
  /\ StepsInOrder
  /\ (input.options.redact /\ output.written # <<>>) =>
       /\ Began("redact")
       /\ output.written[1] = RedactedEntries(output.mergedHar[1])
  /\ (Began("filter") /\ TotalEntries(output.filteredHars) = 0) =>
       /\ output.steps = <<"parse", "filter">>
       /\ pc = "returned"
       /\ output.mergedHar = <<>>
       /\ output.written = <<>>
  /\ output.error # <<>> =>
       /\ pc \in {"catch", "exited"}
       /\ output.steps[Len(output.steps)] = output.raisedBy
       /\ output.written = <<>> \/ output.raisedBy = "docs"
       /\ pc = "exited" => output.exitCode = <<1>>
  /\ output.exitCode = <<1>> => output.error # <<>>

\* Two files were merged into one entry, the entry was redacted, the
\* specification of the redacted entry was written and the documentation
\* generated.
C25_Witness ==
  /\ pc = "returned"
  /\ Len(input.files) = 2
  /\ input.options.redact
  /\ output.steps = StepOrder
  /\ Len(output.mergedHar[1]) = 1
  /\ output.written # output.mergedHar
  /\ output.written[1] = RedactedEntries(output.mergedHar[1])
  /\ output.docs

\* The filters left nothing and the command returned.
C25_WitnessNothingFound ==
  /\ pc = "returned"
  /\ output.steps = <<"parse", "filter">>
  /\ output.parsed # <<>>

\* A step after the parse raised and the process exited with status 1.
C25_WitnessRaised ==
  /\ pc = "exited"
  /\ output.raisedBy = "write"
  /\ output.exitCode = <<1>>

\* C28: no error is raised by the standard filters, by mergeHarFiles or by
\* redactHarFile, whatever capture validateHarStructure accepted.
C28_TransformsNeverRaise ==
  output.error # <<>> => output.raisedBy \notin {"filter", "merge", "redact"}

\* mergeHarFiles alone: an accepted capture never makes it raise.
C28_MergeNeverRaises ==
  output.error # <<>> => output.raisedBy # "merge"

====
